---- MODULE Spec2Model ----
(***************************************************************************)
(* Message reconciliation engine of the fractal messaging inbox:           *)
(* syncConversationFromTwilio (services/twilio/history.ts) and             *)
(* bulkSyncFromTwilio (services/twilio/bulk-sync.ts) over the Prisma store *)
(* of contacts, channels, conversations, messages and status events.       *)
(*                                                                         *)
(* Strings that the code inspects character-wise (addresses, media URIs)   *)
(* are sequences of tokens; "whatsapp:" is one token.  Dates are small     *)
(* naturals (epoch = 0).  null / undefined is NoVal for plain strings, NoDate *)
(* for dates and the empty sequence for token strings.                     *)
(***************************************************************************)
EXTENDS Integers, Sequences, FiniteSets, TLC

VARIABLES
    contacts,       \* table "contacts":       row id = index
    channels,       \* table "channels"
    conversations,  \* table "conversations":  row id = index
    messages,       \* table "messages":       row id = index
    statusEvents,   \* table "status_events", in insertion order
    remote,         \* the provider's view: per SID the status it reports, or Absent
    mediaDown,      \* TRUE while the provider's list-media call fails
    lists,          \* the provider answers given as input: two lists (SpecLists, SpecRepeat, SpecSparse), one record (SpecRecords)
    clock,          \* what new Date() and the database's now() read
    last,           \* the request answered last, or what the provider did after it
    ops,            \* number of requests and provider changes so far
    procs           \* the handlers in progress, each with its position and locals

vars == <<contacts, channels, conversations, messages, statusEvents, remote, mediaDown, lists, clock,
          last, ops, procs>>

NoVal == "null"
NoDate == 0 - 1
NoCode == 0 - 1
Absent == "absent"

\* ---------------------------------------------------------------- bounds
MaxOps == 5         \* Spec: requests and provider changes per behaviour
MaxLimit == 2       \* SpecLists: options.limit is drawn from 1..MaxLimit
MaxListLen == 2     \* SpecLists, SpecRepeat: length of each list the provider returns
MaxChannels == 2    \* SpecChannels: channels of the contact
MaxProcs == 2       \* SpecRace, SpecResolve, SpecBatch: requests per behaviour
MaxTicks == 2       \* SpecSparse: milliseconds the clock moves on
MaxRuns == 2        \* SpecRepeat: runs per behaviour
MaxCalls == 3       \* SpecCalls: calls per behaviour

\* const limit = options.limit ?? 200
DefaultLimit == 200

\* ------------------------------------------------------- sequence helpers
Range(s) == {s[i] : i \in 1..Len(s)}

Last(s) == s[Len(s)]

RECURSIVE RemoveFirst(_, _)
RemoveFirst(s, tok) ==
    IF s = <<>> THEN <<>>
    ELSE IF Head(s) = tok THEN Tail(s)
    ELSE <<Head(s)>> \o RemoveFirst(Tail(s), tok)

\* ------------------------------------------------------------ environment
\* env.TWILIO_PHONE_NUMBER is configured (with formatting characters);
\* env.TWILIO_WHATSAPP_NUMBER is not, so the default literal is used;
\* env.TWILIO_MESSAGING_SERVICE_SID is not configured either.
TWILIO_PHONE_NUMBER == <<"+", "9", " ", "0">>
TWILIO_WHATSAPP_NUMBER == <<>>
TWILIO_MESSAGING_SERVICE_SID == <<>>
DefaultWhatsAppNumber == <<"+", "8">>

\* ------------------------------------------------------------- client.ts
\* String.prototype.toLowerCase on the strings that occur
ToLowerCase(s) ==
    CASE s = "DELIVERED"    -> "delivered"
      [] s = "Sent"         -> "sent"
      [] s = "Read"         -> "read"
      [] s = "QUEUED"       -> "queued"
      [] s = "Constructor"  -> "constructor"
      [] s = "Inbound"      -> "inbound"
      [] s = "OUTBOUND-API" -> "outbound-api"
      [] OTHER              -> s

statusMap ==
    [k \in {"queued", "sending", "sent", "delivered", "undelivered", "failed", "read", "canceled"} |->
        CASE k = "queued"      -> "QUEUED"
          [] k = "sending"     -> "SENDING"
          [] k = "sent"        -> "SENT"
          [] k = "delivered"   -> "DELIVERED"
          [] k = "undelivered" -> "UNDELIVERED"
          [] k = "failed"      -> "FAILED"
          [] k = "read"        -> "READ"
          [] k = "canceled"    -> "CANCELED"]

\* statusMap is an object literal: a key it does not own is looked up on
\* Object.prototype.  Of the inherited names only these two are lower case;
\* the values are the Object constructor and the prototype object, both truthy.
ObjectPrototype ==
    [k \in {"constructor", "__proto__"} |->
        IF k = "constructor" THEN "[Function: Object]" ELSE "[Object: null prototype] {}"]

\* statusMap[twilioStatus.toLowerCase()] || 'QUEUED'
mapTwilioStatus(twilioStatus) ==
    LET key == ToLowerCase(twilioStatus)
    IN  IF key \in DOMAIN statusMap THEN statusMap[key]
        ELSE IF key \in DOMAIN ObjectPrototype THEN ObjectPrototype[key]
        ELSE "QUEUED"

formatPhoneNumber(number) ==
    LET cleaned == SelectSeq(number, LAMBDA c : c \notin {" ", "-", "(", ")"})
    IN  IF cleaned # <<>> /\ Head(cleaned) = "+" THEN cleaned ELSE <<"+">> \o cleaned

formatWhatsAppNumber(number) == <<"whatsapp:">> \o formatPhoneNumber(number)

\* ---------------------------------------------- history.ts / bulk-sync.ts
startsWithWhatsApp(value) ==
    value # <<>> /\ Head(value) = "whatsapp:"

stripTransportPrefix(value) ==
    IF value = <<>> THEN <<>>
    ELSE IF startsWithWhatsApp(value) THEN RemoveFirst(value, "whatsapp:")
    ELSE value

toTwilioAddress(channelType, identifier) ==
    IF channelType = "WHATSAPP" THEN formatWhatsAppNumber(identifier)
    ELSE formatPhoneNumber(identifier)

\* JavaScript's (v || d) on token strings and on plain strings
OrElse(v, d) == IF v = <<>> THEN d ELSE v

OrElseStr(v, d) == IF v = NoVal \/ v = "" THEN d ELSE v

getOurTwilioNumber(channelType) ==
    IF channelType = "WHATSAPP"
    THEN formatWhatsAppNumber(OrElse(TWILIO_WHATSAPP_NUMBER, DefaultWhatsAppNumber))
    ELSE formatPhoneNumber(OrElse(TWILIO_PHONE_NUMBER, <<>>))

getOurPhoneNumber == formatPhoneNumber(OrElse(TWILIO_PHONE_NUMBER, <<>>))

getOurWhatsAppNumber == formatWhatsAppNumber(OrElse(TWILIO_WHATSAPP_NUMBER, DefaultWhatsAppNumber))

ourNumbers == {stripTransportPrefix(getOurPhoneNumber), stripTransportPrefix(getOurWhatsAppNumber)}

\* parseInt(numMedia || '0', 10) on the strings the provider sends
parseInt(s) ==
    CASE s = "1"  -> 1
      [] s = "2"  -> 2
      [] s = "-1" -> 0 - 1
      [] OTHER    -> 0

inferChannelTypeFromTwilioMessage(message) ==
    LET from == OrElse(message.from, <<>>)
        to == OrElse(message.to, <<>>)
        isWhatsApp == startsWithWhatsApp(from) \/ startsWithWhatsApp(to)
    IN  IF isWhatsApp THEN "WHATSAPP"
        ELSE IF parseInt(OrElseStr(message.numMedia, "0")) > 0 THEN "MMS" ELSE "SMS"

\* history.ts: direction from the provider's direction hint
inferDirectionFromTwilioMessage(message) ==
    LET dir == ToLowerCase(OrElseStr(message.direction, ""))
    IN  IF dir \in {"inbound"} THEN "INBOUND" ELSE "OUTBOUND"

\* bulk-sync.ts: direction from the from-address
bulkInferDirectionFromTwilioMessage(message, ourNums) ==
    IF stripTransportPrefix(message.from) \in ourNums THEN "OUTBOUND" ELSE "INBOUND"

\* media.list() of the provider: one media resource per declared medium
MediaList(messageSid) == << <<"/Messages/", messageSid, "/Media/ME1", ".json">> >>

mediaUrlOf(uri) == <<"https://api.twilio.com">> \o RemoveFirst(uri, ".json")

maybeFetchMediaUrls(messageSid, numMedia, down) ==
    LET count == parseInt(OrElseStr(numMedia, "0"))
    IN  IF count = 0 THEN <<>>
        ELSE IF down THEN <<>>
        ELSE [i \in 1..Len(MediaList(messageSid)) |-> mediaUrlOf(MediaList(messageSid)[i])]

\* how often maybeFetchMediaUrls calls media.list(): not at all when !count
MediaListCalls(numMedia) ==
    IF parseInt(OrElseStr(numMedia, "0")) = 0 THEN 0 ELSE 1

\* ------------------------------------------------------ the remote provider
\* The messages of the account.  What never changes about a message is fixed
\* here; the status the provider reports for it is the state variable remote.
AddrA == <<"+", "1">>
AddrB == <<"+", "2">>

SIDs == {"SM1", "SM2", "SM3", "SM4", "SM5"}

Catalogue ==
    [sid \in SIDs |->
        CASE sid = "SM1" -> [from |-> getOurWhatsAppNumber, to |-> <<"whatsapp:">> \o AddrB,
                             body |-> "hola", numMedia |-> "0", direction |-> "outbound-api",
                             dateCreated |-> 1]
          [] sid = "SM2" -> [from |-> AddrA, to |-> getOurPhoneNumber,
                             body |-> "hello", numMedia |-> "0", direction |-> "inbound",
                             dateCreated |-> 2]
          [] sid = "SM3" -> [from |-> getOurPhoneNumber, to |-> AddrA,
                             body |-> "", numMedia |-> "1", direction |-> "outbound-api",
                             dateCreated |-> 3]
          [] sid = "SM4" -> [from |-> getOurWhatsAppNumber, to |-> <<"whatsapp:">> \o AddrB,
                             body |-> "offer", numMedia |-> "0", direction |-> "outbound-api",
                             dateCreated |-> 4]
          [] sid = "SM5" -> [from |-> getOurPhoneNumber, to |-> AddrB,
                             body |-> "", numMedia |-> "1", direction |-> "outbound-api",
                             dateCreated |-> 5]]

\* the statuses the provider reports: the WhatsApp message is delivered and
\* then read, an inbound SMS stays "received", the outbound MMS runs through
\* the delivery life cycle or fails with an error code; SM4 is the template
\* message, which the provider has only once sendTemplateMessage sent it, and
\* SM5 the MMS to the second address, which it has only once sendMessage sent it
RemoteStatuses ==
    [sid \in SIDs |->
        CASE sid = "SM1" -> {"delivered", "read"}
          [] sid = "SM2" -> {"received"}
          [] sid = "SM3" -> {"queued", "sent", "delivered", "read", "failed"}
          [] sid = "SM4" -> {}
          [] sid = "SM5" -> {}]

\* the provider stamps dateUpdated when the status changes
StatusAge(st) ==
    CASE st = "delivered" -> 1
      [] st = "failed"    -> 1
      [] st = "read"      -> 2
      [] OTHER            -> 0

\* the error code the provider gives with status "failed"
CarrierViolation == 30007
CarrierViolationText == "Carrier violation"

\* the record messages.list() returns for sid while the provider reports st
TwilioRecord(sid, st) ==
    [sid |-> sid, from |-> Catalogue[sid].from, to |-> Catalogue[sid].to,
     body |-> Catalogue[sid].body, status |-> st, direction |-> Catalogue[sid].direction,
     numMedia |-> Catalogue[sid].numMedia,
     dateCreated |-> Catalogue[sid].dateCreated,
     dateUpdated |-> Catalogue[sid].dateCreated + StatusAge(st),
     dateSent |-> IF st \in {"queued", "accepted", "sending", "failed"}
                  THEN NoDate ELSE Catalogue[sid].dateCreated,
     errorCode |-> IF st = "failed" THEN CarrierViolation ELSE NoCode,
     errorMessage |-> IF st = "failed" THEN CarrierViolationText ELSE NoVal]

\* the provider lists newest first
ProviderOrder == <<"SM5", "SM4", "SM3", "SM2", "SM1">>

ListAll(rem) ==
    LET present == SelectSeq(ProviderOrder, LAMBDA sid : rem[sid] # Absent)
    IN  [i \in 1..Len(present) |-> TwilioRecord(present[i], rem[present[i]])]

\* twilioClient.messages.list({ from, to, pageSize })
ListFromTo(rem, from, to) ==
    SelectSeq(ListAll(rem), LAMBDA m : m.from = from /\ m.to = to)

\* twilioClient.messages.list({ pageSize, dateSentAfter })
ListSince(rem, dateAfter) ==
    IF dateAfter = NoDate THEN ListAll(rem)
    ELSE SelectSeq(ListAll(rem), LAMBDA m : m.dateSent # NoDate /\ m.dateSent >= dateAfter)


\* ------------------------------------------------------------ the store
\* A row's id is its position in its table.  contacts, conversations and
\* messages keep the position of a deleted row (ids are never reused); channels
\* and status events, which nothing refers to by id, are taken out.
Db(c, ch, cv, m, ev) ==
    [contacts |-> c, channels |-> ch, conversations |-> cv, messages |-> m, statusEvents |-> ev]

CurrentDb == Db(contacts, channels, conversations, messages, statusEvents)

EmptyDb == Db(<<>>, <<>>, <<>>, <<>>, <<>>)

DeletedContact == [name |-> <<>>]

DeletedConversation ==
    [contactId |-> 0, channelType |-> NoVal, lastMessage |-> NoVal, lastMessageAt |-> NoDate]

DeletedMessage ==
    [twilioSid |-> NoVal, conversationId |-> 0, direction |-> NoVal, channelType |-> NoVal,
     from |-> <<>>, to |-> <<>>, body |-> "", mediaUrls |-> <<>>, status |-> NoVal,
     errorCode |-> NoVal, errorMessage |-> NoVal, sentAt |-> NoDate, deliveredAt |-> NoDate,
     readAt |-> NoDate, createdAt |-> NoDate, updatedAt |-> NoDate]

ContactLive(db, id) == id \in 1..Len(db.contacts) /\ db.contacts[id] # DeletedContact

ConversationLive(db, id) == id \in 1..Len(db.conversations) /\ db.conversations[id].contactId # 0

MessageLive(db, id) == id \in 1..Len(db.messages) /\ db.messages[id].conversationId # 0

\* what Prisma throws: a unique index, a foreign key, a row that is not there
P2002Sid == "P2002 (twilioSid)"
P2002Channel == "P2002 (type, identifier)"
P2003 == "P2003"
P2025 == "P2025"

\* mutant: the unique index on twilioSid is missing
SidTakenMutant(db, sid) == FALSE

\* UNIQUE INDEX messages_twilioSid_key (NULLs are distinct)
SidTaken(db, sid) ==
    sid # NoVal /\ \E i \in 1..Len(db.messages) : db.messages[i].twilioSid = sid

\* mutant: the status event of the message is replaced instead of a new one added
StatusEventCreateMutant(events, messageId, status, timestamp) ==
    SelectSeq(events, LAMBDA e : e.messageId # messageId)
        \o <<[messageId |-> messageId, status |-> status, timestamp |-> timestamp]>>

\* statusEvent.create({ data: { messageId, status, timestamp, rawPayload } })
StatusEventCreate(events, messageId, status, timestamp) ==
    Append(events, [messageId |-> messageId, status |-> status, timestamp |-> timestamp])

\* prisma.message.create({ data }) without nested writes: the unique index on
\* twilioSid, the foreign key to conversations
MessageInsert(db, data) ==
    IF SidTaken(db, data.twilioSid) THEN [threw |-> P2002Sid, db |-> db]
    ELSE IF ~ConversationLive(db, data.conversationId) THEN [threw |-> P2003, db |-> db]
    ELSE [threw |-> "", db |-> [db EXCEPT !.messages = Append(@, data)]]

\* prisma.message.create with the nested statusHistory.create, one transaction
MessageCreate(db, data, event) ==
    LET r == MessageInsert(db, data)
    IN  IF r.threw # "" THEN r
        ELSE [threw |-> "",
              db |-> [r.db EXCEPT !.statusEvents =
                         StatusEventCreate(@, Len(r.db.messages), event.status, event.timestamp)]]

\* UNIQUE INDEX channels_type_identifier_key
ChannelTaken(db, type, identifier) ==
    \E i \in 1..Len(db.channels) : db.channels[i].type = type /\ db.channels[i].identifier = identifier

\* prisma.channel.findUnique({ where: { type_identifier } }): index of the row or 0
ChannelFindUnique(db, type, identifier) ==
    IF ChannelTaken(db, type, identifier)
    THEN CHOOSE i \in 1..Len(db.channels) :
            db.channels[i].type = type /\ db.channels[i].identifier = identifier
    ELSE 0

\* mutant: the lookup never finds the conversation
ConversationFindFirstMutant(db, contactId, channelType) == 0

\* prisma.conversation.findFirst({ where: { contactId, channelType } }): first row or 0
ConversationFindFirst(db, contactId, channelType) ==
    LET hits == {i \in 1..Len(db.conversations) :
                    db.conversations[i].contactId = contactId /\ db.conversations[i].channelType = channelType}
    IN  IF hits = {} THEN 0 ELSE CHOOSE i \in hits : \A j \in hits : i <= j

\* channels: { create: [...] }: isPrimary as given (a body gives it as <<TRUE>> or
\* <<FALSE>> and leaves it out as <<>>), else whether the channel is the first
NestedChannels(contactId, chans) ==
    [i \in 1..Len(chans) |->
        [contactId |-> contactId, type |-> chans[i].type, identifier |-> chans[i].identifier,
         isPrimary |-> IF chans[i].isPrimary = <<>> THEN i = 1 ELSE chans[i].isPrimary[1]]]

\* prisma.contact.create({ data: { name, channels: { create } } }), one
\* transaction: the unique index on (type, identifier) makes it throw P2002
ContactCreateWith(db, name, chans) ==
    IF \/ \E i \in 1..Len(chans) : ChannelTaken(db, chans[i].type, chans[i].identifier)
       \/ \E i, j \in 1..Len(chans) :
             i # j /\ chans[i].type = chans[j].type /\ chans[i].identifier = chans[j].identifier
    THEN [db |-> db, contactId |-> 0, created |-> 0, threw |-> P2002Channel]
    ELSE [db |-> [db EXCEPT !.contacts = Append(@, [name |-> name]),
                            !.channels = @ \o NestedChannels(Len(db.contacts) + 1, chans)],
          contactId |-> Len(db.contacts) + 1, created |-> 1, threw |-> ""]

\* the contact bulk-sync.ts, webhooks.ts and getOrCreateConversation create:
\* named after the number, with the number as its primary channel
ContactCreate(db, channelType, contactNumber) ==
    ContactCreateWith(db, contactNumber,
                      <<[type |-> channelType, identifier |-> contactNumber, isPrimary |-> <<TRUE>>]>>)

\* prisma.contact.update({ where: { id }, data: { name } })
ContactUpdate(db, id, name) ==
    IF ~ContactLive(db, id) THEN [db |-> db, threw |-> P2025]
    ELSE [db |-> [db EXCEPT !.contacts[id].name = name], threw |-> ""]

\* prisma.contact.delete({ where: { id } }): ON DELETE CASCADE takes the
\* contact's channels, its conversations, their messages and their status events
ContactDelete(db, id) ==
    LET convs == {c \in 1..Len(db.conversations) : db.conversations[c].contactId = id}
        msgs == {m \in 1..Len(db.messages) : db.messages[m].conversationId \in convs}
    IN  IF ~ContactLive(db, id) THEN [db |-> db, threw |-> P2025]
        ELSE [db |-> Db([db.contacts EXCEPT ![id] = DeletedContact],
                        SelectSeq(db.channels, LAMBDA ch : ch.contactId # id),
                        [c \in 1..Len(db.conversations) |->
                            IF c \in convs THEN DeletedConversation ELSE db.conversations[c]],
                        [m \in 1..Len(db.messages) |->
                            IF m \in msgs THEN DeletedMessage ELSE db.messages[m]],
                        SelectSeq(db.statusEvents, LAMBDA e : e.messageId \notin msgs)),
              threw |-> ""]

\* prisma.channel.create({ data: { contactId, type, identifier, isPrimary: isPrimary ?? false } })
ChannelCreate(db, contactId, chan) ==
    IF ChannelTaken(db, chan.type, chan.identifier) THEN [db |-> db, threw |-> P2002Channel]
    ELSE IF ~ContactLive(db, contactId) THEN [db |-> db, threw |-> P2003]
    ELSE [db |-> [db EXCEPT !.channels =
                     Append(@, [contactId |-> contactId, type |-> chan.type,
                                identifier |-> chan.identifier,
                                isPrimary |-> IF chan.isPrimary = <<>> THEN FALSE ELSE chan.isPrimary[1]])],
          threw |-> ""]

\* prisma.conversation.create({ data: { contactId, channelType } }): no unique
\* index, the foreign key to contacts
ConversationCreate(db, contactId, channelType) ==
    IF ~ContactLive(db, contactId)
    THEN [db |-> db, conversationId |-> 0, created |-> 0, threw |-> P2003]
    ELSE [db |-> [db EXCEPT !.conversations =
                     Append(@, [contactId |-> contactId, channelType |-> channelType,
                                lastMessage |-> NoVal, lastMessageAt |-> NoDate])],
          conversationId |-> Len(db.conversations) + 1, created |-> 1, threw |-> ""]

\* prisma.conversation.update({ where: { id }, data: { lastMessage, lastMessageAt } })
ConversationUpdate(db, conversationId, lastMessage, lastMessageAt) ==
    IF ~ConversationLive(db, conversationId) THEN [db |-> db, threw |-> P2025]
    ELSE [db |-> [db EXCEPT !.conversations[conversationId].lastMessage = lastMessage,
                            !.conversations[conversationId].lastMessageAt = lastMessageAt],
          threw |-> ""]

\* the clock when the process starts: later than every date of the provider
ClockAtStart == 1 + Catalogue["SM3"].dateCreated + StatusAge("read")

\* -------------------------------------------- history.ts: merge and slice
Truthy(sid) == sid # NoVal /\ sid # ""

\* bySid = new Map(); for (msg of merged) if (msg.sid) bySid.set(msg.sid, msg)
\* Array.from(bySid.values()): keys in order of first insertion, value = last set
bySidValues(merged) ==
    LET firstAt(i) == Truthy(merged[i].sid) /\ \A j \in 1..(i - 1) : merged[j].sid # merged[i].sid
        lastOf(sid) == CHOOSE i \in 1..Len(merged) :
                          merged[i].sid = sid /\ \A j \in (i + 1)..Len(merged) : merged[j].sid # sid
        keysAt == {i \in 1..Len(merged) : firstAt(i)}
        nth(k) == CHOOSE i \in keysAt : Cardinality({j \in keysAt : j < i}) = k - 1
    IN  [k \in 1..Cardinality(keysAt) |-> merged[lastOf(merged[nth(k)].sid)]]

\* (a.dateCreated?.getTime?.() ?? 0)
SortKey(m) == IF m.dateCreated = NoDate THEN 0 ELSE m.dateCreated

\* mutant: the comparator sorts newest first
CompareCreatedMutant(a, b) == SortKey(b) - SortKey(a)

\* the comparator (a, b) => ta - tb
CompareCreated(a, b) == SortKey(a) - SortKey(b)

\* Array.prototype.sort is stable: x goes behind every element that does not compare greater
InsertSorted(sorted, x) ==
    LET k == Cardinality({i \in 1..Len(sorted) : CompareCreated(sorted[i], x) <= 0})
    IN  SubSeq(sorted, 1, k) \o <<x>> \o SubSeq(sorted, k + 1, Len(sorted))

RECURSIVE SortByCreated(_)
SortByCreated(s) ==
    IF s = <<>> THEN <<>>
    ELSE InsertSorted(SortByCreated(SubSeq(s, 1, Len(s) - 1)), s[Len(s)])

\* mutant: the slice keeps the head
SliceRecentMutant(unique, limit) ==
    IF Len(unique) > limit THEN SubSeq(unique, 1, limit) ELSE unique

\* unique.length > limit ? unique.slice(unique.length - limit) : unique
SliceRecent(unique, limit) ==
    IF Len(unique) > limit THEN SubSeq(unique, Len(unique) - limit + 1, Len(unique)) ELSE unique

\* merged, deduplicated by SID, sorted by creation time, cut to the limit
SlicedOf(limit, outbound, inbound) ==
    LET merged == outbound \o inbound
        unique == SortByCreated(bySidValues(merged))
    IN  SliceRecent(unique, limit)

\* mutant: the primary flag is ignored
FindChannelMutant(db, conversationId) ==
    LET conv == db.conversations[conversationId]
        mine == {i \in 1..Len(db.channels) :
                    db.channels[i].contactId = conv.contactId /\ db.channels[i].type = conv.channelType}
    IN  IF mine # {} THEN CHOOSE i \in mine : \A j \in mine : i <= j ELSE 0

\* conversation.contact.channels.find(type matches && isPrimary) ?? find(type matches): index or 0
FindChannel(db, conversationId) ==
    LET conv == db.conversations[conversationId]
        mine == {i \in 1..Len(db.channels) :
                    db.channels[i].contactId = conv.contactId /\ db.channels[i].type = conv.channelType}
        prim == {i \in mine : db.channels[i].isPrimary}
        first(S) == CHOOSE i \in S : \A j \in S : i <= j
    IN  IF prim # {} THEN first(prim) ELSE IF mine # {} THEN first(mine) ELSE 0

\* ------------------------------------------------ history.ts: the upsert
\* prisma.message.findMany({ where: { twilioSid: { in: sids } }, select: {...} })
FindExistingBySids(db, sids) ==
    {[id |-> i, twilioSid |-> db.messages[i].twilioSid, status |-> db.messages[i].status,
      deliveredAt |-> db.messages[i].deliveredAt, readAt |-> db.messages[i].readAt,
      sentAt |-> db.messages[i].sentAt, mediaUrls |-> db.messages[i].mediaUrls] :
        i \in {j \in 1..Len(db.messages) : db.messages[j].twilioSid \in sids}}

\* deliveredAt: current.deliveredAt ?? updatedAt
DeliveredAtOnRead(current, updatedAt) ==
    IF current.deliveredAt # NoDate THEN current.deliveredAt ELSE updatedAt

\* twilioMsg.errorCode?.toString(): undefined when the record has no error code
errorCodeToString(errorCode) ==
    IF errorCode = NoCode THEN NoVal ELSE ToString(errorCode)

\* a column whose value in data is undefined is left as it is
SetUnlessUndefined(value, stored) ==
    IF value = NoVal THEN stored ELSE value

\* const createdAt = twilioMsg.dateCreated ? new Date(twilioMsg.dateCreated) : new Date()
CreatedAtOf(twilioMsg, now) ==
    IF twilioMsg.dateCreated # NoDate THEN twilioMsg.dateCreated ELSE now

\* const updatedAt = twilioMsg.dateUpdated ? new Date(twilioMsg.dateUpdated) : createdAt
UpdatedAtOf(twilioMsg, createdAt) ==
    IF twilioMsg.dateUpdated # NoDate THEN twilioMsg.dateUpdated ELSE createdAt

\* includeMedia and a count that is not falsy: maybeFetchMediaUrls awaits media.list()
NeedsMedia(includeMedia, twilioMsg) ==
    includeMedia /\ parseInt(OrElseStr(OrElseStr(twilioMsg.numMedia, "0"), "0")) # 0

\* the data of message.create, in history.ts and in bulk-sync.ts
MessageData(twilioMsg, conversationId, direction, channelType, createdAt, mediaUrls) ==
    LET status == mapTwilioStatus(OrElseStr(twilioMsg.status, "queued"))
        updatedAt == UpdatedAtOf(twilioMsg, createdAt)
    IN  [twilioSid |-> twilioMsg.sid, conversationId |-> conversationId, direction |-> direction,
         channelType |-> channelType, from |-> stripTransportPrefix(twilioMsg.from),
         to |-> stripTransportPrefix(twilioMsg.to), body |-> OrElseStr(twilioMsg.body, ""),
         mediaUrls |-> mediaUrls, status |-> status,
         errorCode |-> errorCodeToString(twilioMsg.errorCode),
         errorMessage |-> OrElseStr(twilioMsg.errorMessage, NoVal),
         sentAt |-> twilioMsg.dateSent,
         deliveredAt |-> IF status \in {"DELIVERED", "READ"} THEN updatedAt ELSE NoDate,
         readAt |-> IF status = "READ" THEN updatedAt ELSE NoDate,
         createdAt |-> createdAt, updatedAt |-> updatedAt]

\* the data of message.update in the $transaction of history.ts
HistoryUpdateData(row, current, status, errorCode, errorMessage, sentAt, updatedAt, shouldUpdateMedia, mediaUrls) ==
    LET a == [row EXCEPT !.status = status, !.updatedAt = updatedAt,
                         !.errorCode = SetUnlessUndefined(errorCode, @),
                         !.errorMessage = SetUnlessUndefined(errorMessage, @)]
        b == IF sentAt # NoDate /\ current.sentAt = NoDate THEN [a EXCEPT !.sentAt = sentAt] ELSE a
        c == IF status = "DELIVERED" /\ current.deliveredAt = NoDate
             THEN [b EXCEPT !.deliveredAt = updatedAt] ELSE b
        d == IF status = "READ" /\ current.readAt = NoDate
             THEN [c EXCEPT !.readAt = updatedAt,
                            !.deliveredAt = DeliveredAtOnRead(current, updatedAt)]
             ELSE c
    IN  IF shouldUpdateMedia THEN [d EXCEPT !.mediaUrls = mediaUrls] ELSE d

\* current.status !== status
ShouldUpdateStatus(current, status) == current.status # status

\* mutant: media is patched whenever some was resolved
ShouldUpdateMediaMutant(includeMedia, current, mediaUrls) ==
    includeMedia /\ Len(mediaUrls) > 0

\* includeMedia && (current.mediaUrls?.length || 0) === 0 && mediaUrls.length > 0
ShouldUpdateMedia(includeMedia, current, mediaUrls) ==
    includeMedia /\ Len(current.mediaUrls) = 0 /\ Len(mediaUrls) > 0

\* whether the iteration writes at all: a new row, or
\* !(!shouldUpdateStatus && !shouldUpdateMedia) for a row of the snapshot
HistoryWrites(twilioMsg, includeMedia, existing, mediaUrls) ==
    LET hits == {e \in existing : e.twilioSid = twilioMsg.sid}
        status == mapTwilioStatus(OrElseStr(twilioMsg.status, "queued"))
    IN  \/ hits = {}
        \/ \E current \in hits : \/ ShouldUpdateStatus(current, status)
                                 \/ ShouldUpdateMedia(includeMedia, current, mediaUrls)

\* the $transaction of history.ts: message.update, and statusEvent.create when
\* the status changed; an update of a row that is gone rolls it back
HistoryUpdate(db, twilioMsg, includeMedia, current, createdAt, mediaUrls) ==
    LET status == mapTwilioStatus(OrElseStr(twilioMsg.status, "queued"))
        updatedAt == UpdatedAtOf(twilioMsg, createdAt)
        shouldUpdateStatus == ShouldUpdateStatus(current, status)
        shouldUpdateMedia == ShouldUpdateMedia(includeMedia, current, mediaUrls)
    IN  IF ~MessageLive(db, current.id) THEN [threw |-> P2025, db |-> db]
        ELSE [threw |-> "",
              db |-> [db EXCEPT
                        !.messages[current.id] =
                            HistoryUpdateData(@, current, status,
                                              errorCodeToString(twilioMsg.errorCode),
                                              OrElseStr(twilioMsg.errorMessage, NoVal),
                                              twilioMsg.dateSent, updatedAt, shouldUpdateMedia,
                                              mediaUrls),
                        !.statusEvents =
                            IF shouldUpdateStatus
                            THEN StatusEventCreate(@, current.id, status, updatedAt)
                            ELSE @]]

\* the write of one iteration of for (const twilioMsg of sliced): message.create
\* for a SID the snapshot does not hold, the $transaction for one it holds
HistoryUpsert(db, twilioMsg, conversationId, includeMedia, existing, createdAt, mediaUrls) ==
    LET hits == {e \in existing : e.twilioSid = twilioMsg.sid}
        status == mapTwilioStatus(OrElseStr(twilioMsg.status, "queued"))
    IN  IF hits = {}
        THEN MessageCreate(db,
                           MessageData(twilioMsg, conversationId,
                                       inferDirectionFromTwilioMessage(twilioMsg),
                                       inferChannelTypeFromTwilioMessage(twilioMsg),
                                       createdAt, mediaUrls),
                           [status |-> status, timestamp |-> UpdatedAtOf(twilioMsg, createdAt)])
                 @@ [inserted |-> 1, updated |-> 0]
        ELSE HistoryUpdate(db, twilioMsg, includeMedia, CHOOSE e \in hits : TRUE, createdAt, mediaUrls)
                 @@ [inserted |-> 0, updated |-> 1]

\* lastBody = last.body || (Number(last.numMedia || 0) > 0 ? '[Media]' : ''),
\* stored as lastBody || null
HistoryLastMessage(last_) ==
    OrElseStr(OrElseStr(last_.body,
                        IF parseInt(OrElseStr(last_.numMedia, "0")) > 0 THEN "[Media]" ELSE ""),
              NoVal)

\* ------------------------------------------------------------ bulk-sync.ts
\* the party that is not us: ourNumbers.has(from) ? to : from
ContactNumberOf(msg, ourNums) ==
    IF stripTransportPrefix(msg.from) \in ourNums
    THEN stripTransportPrefix(msg.to) ELSE stripTransportPrefix(msg.from)

\* keys of messagesByContact in insertion order (records without a counterparty are skipped)
ContactKeys(allMessages, ourNums) ==
    LET key(i) == ContactNumberOf(allMessages[i], ourNums)
        firstAt(i) == key(i) # <<>> /\ \A j \in 1..(i - 1) : key(j) # key(i)
        keysAt == {i \in 1..Len(allMessages) : firstAt(i)}
        nth(k) == CHOOSE i \in keysAt : Cardinality({j \in keysAt : j < i}) = k - 1
    IN  [k \in 1..Cardinality(keysAt) |-> key(nth(k))]

\* messagesByContact.get(contactNumber)
MessagesOfContact(allMessages, ourNums, contactNumber) ==
    SelectSeq(allMessages, LAMBDA m : ContactNumberOf(m, ourNums) = contactNumber)

\* prisma.message.findMany({ where: { conversationId }, select: { twilioSid, status, id } })
FindExistingByConversation(db, conversationId) ==
    {[id |-> i, twilioSid |-> db.messages[i].twilioSid, status |-> db.messages[i].status] :
        i \in {j \in 1..Len(db.messages) : db.messages[j].conversationId = conversationId}}

\* else if (existing.status !== status)
BulkShouldUpdate(existingRow, status) == existingRow.status # status

\* the data of message.update in the $transaction: status, errorCode, errorMessage, updatedAt
BulkUpdateData(row, status, errorCode, errorMessage, updatedAt) ==
    [row EXCEPT !.status = status, !.updatedAt = updatedAt,
                !.errorCode = SetUnlessUndefined(errorCode, @),
                !.errorMessage = SetUnlessUndefined(errorMessage, @)]

\* whether the iteration writes at all: no row in existingBySid, or its status differs
BulkWrites(twilioMsg, existing) ==
    LET hits == {e \in existing : e.twilioSid = twilioMsg.sid}
    IN  \/ hits = {}
        \/ \E e \in hits : BulkShouldUpdate(e, mapTwilioStatus(OrElseStr(twilioMsg.status, "queued")))

\* the write of one iteration of for (const twilioMsg of messages)
BulkUpsert(db, twilioMsg, conversationId, channelType, existing, createdAt, mediaUrls) ==
    LET hits == {e \in existing : e.twilioSid = twilioMsg.sid}
        status == mapTwilioStatus(OrElseStr(twilioMsg.status, "queued"))
        updatedAt == UpdatedAtOf(twilioMsg, createdAt)
        existingRow == CHOOSE e \in hits : TRUE
    IN  IF hits = {}
        THEN MessageCreate(db,
                           MessageData(twilioMsg, conversationId,
                                       bulkInferDirectionFromTwilioMessage(twilioMsg, ourNumbers),
                                       channelType, createdAt, mediaUrls),
                           [status |-> status, timestamp |-> updatedAt])
                 @@ [inserted |-> 1, updated |-> 0]
        ELSE IF ~MessageLive(db, existingRow.id)
        THEN [threw |-> P2025, db |-> db, inserted |-> 0, updated |-> 0]
        ELSE [threw |-> "",
              db |-> [db EXCEPT
                        !.messages[existingRow.id] =
                            BulkUpdateData(@, status, errorCodeToString(twilioMsg.errorCode),
                                           OrElseStr(twilioMsg.errorMessage, NoVal), updatedAt),
                        !.statusEvents = StatusEventCreate(@, existingRow.id, status, updatedAt)],
              inserted |-> 0, updated |-> 1]

\* mutant: no per-contact catch, the error leaves the loop
CatchContactMutant(acc, contactNumber, thrown) == [acc EXCEPT !.threw = thrown]

\* catch (error) { result.errors.push(errorMsg) } of the per-contact try
CatchContact(acc, contactNumber, thrown) ==
    [acc EXCEPT !.errors = Append(@, <<"Error processing contact ", contactNumber, ": ", thrown>>)]

\* ------------------------------------------ POST /webhooks/twilio/status
\* prisma.message.findUnique({ where: { twilioSid: MessageSid } }): the row, or 0
MessageFindBySid(db, sid) ==
    IF \E i \in 1..Len(db.messages) : db.messages[i].twilioSid = sid
    THEN CHOOSE i \in 1..Len(db.messages) : db.messages[i].twilioSid = sid
    ELSE 0

\* the forms a status callback is posted in: with every field of the record,
\* with ErrorCode but without ErrorMessage, or with an empty ErrorCode
StatusForms == {"full", "noMessage", "emptyCode"}

\* req.body of the callback for the record: the error code as text; a field
\* that is not posted is undefined
StatusPayload(rec, form) ==
    [MessageSid |-> rec.sid, MessageStatus |-> rec.status,
     ErrorCode |-> IF form = "emptyCode" THEN "" ELSE errorCodeToString(rec.errorCode),
     ErrorMessage |-> IF form = "full" THEN rec.errorMessage ELSE NoVal]

\* updateData of the status callback: if (ErrorCode) sets errorCode and
\* errorMessage, and an undefined ErrorMessage leaves the column; at is what
\* new Date() read when updateData was built, updatedAt is stamped by the update
StatusUpdateData(row, status, payload, at, updatedAt) ==
    LET a == [row EXCEPT !.status = status, !.updatedAt = updatedAt]
        b == IF Truthy(payload.ErrorCode)
             THEN [a EXCEPT !.errorCode = payload.ErrorCode,
                            !.errorMessage = SetUnlessUndefined(payload.ErrorMessage, @)]
             ELSE a
    IN  CASE payload.MessageStatus = "sent"      -> [b EXCEPT !.sentAt = at]
          [] payload.MessageStatus = "delivered" -> [b EXCEPT !.deliveredAt = at]
          [] payload.MessageStatus = "read"      -> [b EXCEPT !.readAt = at]
          [] OTHER                               -> b

\* prisma.statusEvent.create({ data: { messageId, status, rawPayload } }): the
\* timestamp is now(); the foreign key to messages
StatusCallbackEvent(db, id, payload, now) ==
    IF ~MessageLive(db, id) THEN [threw |-> P2003, db |-> db]
    ELSE [threw |-> "",
          db |-> [db EXCEPT !.statusEvents =
                     StatusEventCreate(@, id, mapTwilioStatus(payload.MessageStatus), now)]]

\* prisma.message.update({ where: { id }, data: updateData })
StatusCallbackUpdate(db, id, payload, at, now) ==
    IF ~MessageLive(db, id) THEN [threw |-> P2025, db |-> db]
    ELSE [threw |-> "",
          db |-> [db EXCEPT !.messages[id] =
                     StatusUpdateData(@, mapTwilioStatus(payload.MessageStatus), payload, at, now)]]

\* ------------------------------------------------------------ the handlers
\* A request that is being served is a record of procs: its kind, its position
\* pc and its local variables.  Every await of a handler is a step of its own,
\* with what the handler runs up to its next await; between two steps of one
\* handler any other handler that is in progress can take steps.  Kinds: "sync"
\* (POST /conversations/:id/sync, syncConversationFromTwilio), "bulk"
\* (bulkSyncFromTwilio), "status" (POST /webhooks/twilio/status), "incoming"
\* (POST /webhooks/twilio/incoming for SM2), "send" (sendMessage of the message
\* the provider will call SM3), "template" (sendTemplateMessage of what will be
\* SM4), "cancel" (DELETE /api/messages/:id), "postContact", "putContact",
\* "deleteContact", "postChannel" (the routes of contacts.ts) and
\* "postConversation" (POST /api/conversations) and "postBulk" (POST
\* /api/messages/bulk, whose sendMessage calls are handlers of kind "send"
\* with batch = TRUE).
NoOp(kind) == [op |-> kind, args |-> <<>>, threw |-> "", result |-> <<>>]

\* the request repeats the one answered before it: same entry point, same
\* options, the one before returned, nothing happened at the provider since
\* and no other request is in progress
Repeats(kind, args) ==
    procs = <<>> /\ last.op = kind /\ last.threw = "" /\ last.args = args

NoAcc ==
    [contactsCreated |-> 0, conversationsCreated |-> 0, messagesInserted |-> 0,
     messagesUpdated |-> 0, totalFetched |-> 0, errors |-> <<>>, threw |-> ""]

\* a handler at its first await.  args are the options of the call, before the
\* store and repeat what Repeats said when the call was made; the other fields
\* are the locals of the function
Proc(kind, pc, args) ==
    [kind |-> kind, pc |-> pc, args |-> args, repeat |-> Repeats(kind, args), before |-> CurrentDb,
     msgs |-> <<>>, keys |-> <<>>, k |-> 1, i |-> 1, fetchOk |-> TRUE, listed |-> 0, queried |-> <<>>,
     channelType |-> "SMS", contactNumber |-> <<>>, contactId |-> 0, conversationId |-> 0,
     messageId |-> 0, existing |-> {}, createdAt |-> NoDate, mediaUrls |-> <<>>, at |-> NoDate,
     lastMessageBody |-> "", lastMessageAt |-> 0, acc |-> NoAcc, batch |-> FALSE,
     result |-> <<>>]

\* bulk: the run turns to its k-th counterparty, or returns after the last one
AtContact(pr, k) ==
    IF k > Len(pr.keys) THEN [pr EXCEPT !.pc = "done", !.k = k]
    ELSE [pr EXCEPT !.pc = "channel", !.k = k, !.i = 1, !.contactNumber = pr.keys[k],
                    !.channelType = inferChannelTypeFromTwilioMessage(
                                        MessagesOfContact(pr.msgs, ourNumbers, pr.keys[k])[1]),
                    !.contactId = 0, !.conversationId = 0, !.existing = {},
                    !.lastMessageBody = "", !.lastMessageAt = 0]

\* an exception in a handler: bulk catches it per counterparty, the others end with it
Failed(pr, thrown) ==
    IF pr.kind = "bulk"
    THEN AtContact([pr EXCEPT !.acc = CatchContact(pr.acc, pr.contactNumber, thrown)], pr.k + 1)
    ELSE [pr EXCEPT !.pc = "done", !.acc.threw = thrown]

StoreUnchanged == UNCHANGED <<contacts, channels, conversations, messages, statusEvents>>

Install(db) ==
    /\ contacts' = db.contacts
    /\ channels' = db.channels
    /\ conversations' = db.conversations
    /\ messages' = db.messages
    /\ statusEvents' = db.statusEvents

\* what a step of a handler leaves alone besides the store and the provider
StepFrame == UNCHANGED <<mediaDown, lists, clock, last, ops>>

\* a request arrives: the handler runs to its first await
Arrives(pr) ==
    /\ procs' = Append(procs, pr)
    /\ ops' = ops + 1
    /\ UNCHANGED <<remote, mediaDown, lists, clock, last>>

\* the handler answers its caller (res.json, res.send, or the return of the
\* function): the request is over
Respond(p) ==
    /\ procs[p].pc = "done" /\ ~procs[p].batch
    /\ last' = [NoOp(procs[p].kind) EXCEPT !.args = procs[p].args, !.threw = procs[p].acc.threw,
                                          !.result = procs[p].result]
    /\ procs' = [q \in 1..(Len(procs) - 1) |-> IF q < p THEN procs[q] ELSE procs[q + 1]]
    /\ StoreUnchanged
    /\ UNCHANGED <<remote, mediaDown, lists, clock, ops>>

\* --------------------------------------------- syncConversationFromTwilio
\* conversation.findUnique with the contact's channels returned: the two throws,
\* or the address the two list calls are issued for
SyncFound(pr, db) ==
    IF ~ConversationLive(db, pr.args.conversationId) THEN Failed(pr, "Conversation not found")
    ELSE IF FindChannel(db, pr.args.conversationId) = 0
    THEN Failed(pr, "No matching contact channel found")
    ELSE [pr EXCEPT !.conversationId = pr.args.conversationId,
                    !.channelType = db.conversations[pr.args.conversationId].channelType,
                    !.contactNumber = db.channels[FindChannel(db, pr.args.conversationId)].identifier,
                    !.queried = toTwilioAddress(
                                    db.conversations[pr.args.conversationId].channelType,
                                    db.channels[FindChannel(db, pr.args.conversationId)].identifier)]

\* POST /conversations/:id/sync with { limit, includeMedia }: the call and its
\* conversation.findUnique
StartSync(conversationId, limit, includeMedia) ==
    /\ Arrives(SyncFound(Proc("sync", "list",
                              [conversationId |-> conversationId, limit |-> limit,
                               includeMedia |-> includeMedia]),
                         CurrentDb))
    /\ StoreUnchanged

\* sync: the loop goes on at record i of sliced and runs to its next await:
\* media.list for a record with media, the write for a record that needs one,
\* conversation.update after the last record, or the return
RECURSIVE SyncAdvance(_, _, _)
RECURSIVE SyncAfterMedia(_, _, _)
SyncAdvance(pr, i, now) ==
    IF i > Len(pr.msgs)
    THEN IF pr.msgs # <<>> /\ Truthy(Last(pr.msgs).sid)
         THEN [pr EXCEPT !.pc = "summary", !.i = i,
                         !.at = CreatedAtOf(Last(pr.msgs), now)]
         ELSE [pr EXCEPT !.pc = "done", !.i = i]
    ELSE IF ~Truthy(pr.msgs[i].sid) THEN SyncAdvance(pr, i + 1, now)
    ELSE IF NeedsMedia(pr.args.includeMedia, pr.msgs[i])
    THEN [pr EXCEPT !.pc = "media", !.i = i, !.createdAt = CreatedAtOf(pr.msgs[i], now)]
    ELSE SyncAfterMedia([pr EXCEPT !.i = i, !.createdAt = CreatedAtOf(pr.msgs[i], now)], <<>>, now)

\* sync: mediaUrls of record i are known: skip the record (continue), or write it
SyncAfterMedia(pr, mediaUrls, now) ==
    IF HistoryWrites(pr.msgs[pr.i], pr.args.includeMedia, pr.existing, mediaUrls)
    THEN [pr EXCEPT !.pc = "write", !.mediaUrls = mediaUrls]
    ELSE SyncAdvance(pr, pr.i + 1, now)

\* the two list calls returned (or one of them failed)
SyncListed(pr, fetchOk, outbound, inbound) ==
    IF ~fetchOk THEN Failed([pr EXCEPT !.fetchOk = FALSE], "RemoteUnavailable")
    ELSE [pr EXCEPT !.msgs = SlicedOf(pr.args.limit, outbound, inbound),
                    !.listed = Len(outbound) + Len(inbound),
                    !.pc = "snapshot"]

\* sync: Promise.all of the two messages.list calls, the merge, the sort and the slice
SyncList(p, fetchOk) ==
    /\ procs[p].kind = "sync" /\ procs[p].pc = "list"
    /\ procs' = [procs EXCEPT ![p] =
                    SyncListed(procs[p], fetchOk,
                               ListFromTo(remote, getOurTwilioNumber(procs[p].channelType),
                                          procs[p].queried),
                               ListFromTo(remote, procs[p].queried,
                                          getOurTwilioNumber(procs[p].channelType)))]
    /\ StoreUnchanged
    /\ UNCHANGED remote
    /\ StepFrame

\* sync: the two list calls are answered with the two lists given
SyncListGiven(p) ==
    /\ procs[p].kind = "sync" /\ procs[p].pc = "list"
    /\ procs' = [procs EXCEPT ![p] = SyncListed(procs[p], TRUE, lists.outbound, lists.inbound)]
    /\ StoreUnchanged
    /\ UNCHANGED remote
    /\ StepFrame

\* sync: prisma.message.findMany({ where: { twilioSid: { in: sids } } })
SyncSnapshot(p) ==
    /\ procs[p].kind = "sync" /\ procs[p].pc = "snapshot"
    /\ procs' = [procs EXCEPT ![p] =
                    SyncAdvance([procs[p] EXCEPT !.existing =
                                     FindExistingBySids(CurrentDb,
                                         {sid \in {procs[p].msgs[i].sid : i \in 1..Len(procs[p].msgs)} :
                                             Truthy(sid)})],
                                1, clock)]
    /\ StoreUnchanged
    /\ UNCHANGED remote
    /\ StepFrame

\* sync: media.list() of maybeFetchMediaUrls returned, or threw
SyncMedia(p) ==
    /\ procs[p].kind = "sync" /\ procs[p].pc = "media"
    /\ procs' = [procs EXCEPT ![p] =
                    SyncAfterMedia(procs[p],
                                   maybeFetchMediaUrls(procs[p].msgs[procs[p].i].sid,
                                                       OrElseStr(procs[p].msgs[procs[p].i].numMedia, "0"),
                                                       mediaDown),
                                   clock)]
    /\ StoreUnchanged
    /\ UNCHANGED remote
    /\ StepFrame

\* sync: the write left r; an exception ends the run
SyncWritten(p, r) ==
    /\ Install(r.db)
    /\ procs' = [procs EXCEPT ![p] =
                    IF r.threw # "" THEN Failed(procs[p], r.threw)
                    ELSE SyncAdvance([procs[p] EXCEPT !.acc.messagesInserted = @ + r.inserted,
                                                      !.acc.messagesUpdated = @ + r.updated],
                                     procs[p].i + 1, clock)]

\* sync: message.create or the $transaction of one record
SyncWrite(p) ==
    /\ procs[p].kind = "sync" /\ procs[p].pc = "write"
    /\ SyncWritten(p, HistoryUpsert(CurrentDb, procs[p].msgs[procs[p].i], procs[p].conversationId,
                                    procs[p].args.includeMedia, procs[p].existing,
                                    procs[p].createdAt, procs[p].mediaUrls))
    /\ UNCHANGED remote
    /\ StepFrame

\* a conversation.update returned r: the handler goes on with next, or ends with the exception
Summarised(p, r, next) ==
    /\ Install(r.db)
    /\ procs' = [procs EXCEPT ![p] = IF r.threw # "" THEN Failed(procs[p], r.threw) ELSE next]

\* sync: conversation.update({ lastMessage, lastMessageAt }) after the loop, then the return
SyncSummary(p) ==
    /\ procs[p].kind = "sync" /\ procs[p].pc = "summary"
    /\ Summarised(p, ConversationUpdate(CurrentDb, procs[p].conversationId,
                                        HistoryLastMessage(Last(procs[p].msgs)), procs[p].at),
                  [procs[p] EXCEPT !.pc = "done"])
    /\ UNCHANGED remote
    /\ StepFrame

\* ------------------------------------------------------ bulkSyncFromTwilio
\* mutant: the outer catch records the failure and returns the result
BulkFatalMutant(pr, thrown) ==
    [pr EXCEPT !.pc = "done",
               !.acc.errors = Append(@, <<"Fatal error during bulk sync: ", thrown>>)]

\* the outer catch: errors.push('Fatal error during bulk sync: ...'); throw error
BulkFatal(pr, thrown) ==
    [pr EXCEPT !.pc = "done", !.acc.threw = thrown,
               !.acc.errors = Append(@, <<"Fatal error during bulk sync: ", thrown>>)]

\* messages.list returned (or failed): the grouping by counterparty
BulkListed(pr, fetchOk, allMessages) ==
    IF ~fetchOk THEN BulkFatal([pr EXCEPT !.fetchOk = FALSE], "RemoteUnavailable")
    ELSE AtContact([pr EXCEPT !.msgs = allMessages,
                              !.keys = ContactKeys(allMessages, ourNumbers),
                              !.acc.totalFetched = Len(allMessages)], 1)

\* bulkSyncFromTwilio({ includeMedia, dateAfter }) is called: the call and its messages.list
StartBulk(includeMedia, dateAfter, fetchOk) ==
    /\ Arrives(BulkListed(Proc("bulk", "channel", [includeMedia |-> includeMedia, dateAfter |-> dateAfter]),
                          fetchOk, ListSince(remote, dateAfter)))
    /\ StoreUnchanged

\* the records of a listing, each once, in the order they are first listed
RECURSIVE ListedOnce(_)
ListedOnce(listing) ==
    IF listing = <<>> THEN <<>>
    ELSE LET front == ListedOnce(SubSeq(listing, 1, Len(listing) - 1))
         IN  IF \E i \in 1..Len(front) : front[i] = Last(listing) THEN front
             ELSE Append(front, Last(listing))

\* bulkSyncFromTwilio({ includeMedia }) is called and messages.list is answered
\* with the records of the two lists given, one list after the other; the one
\* listing of the account holds a record once
StartBulkGiven(includeMedia) ==
    /\ Arrives(BulkListed(Proc("bulk", "channel", [includeMedia |-> includeMedia, dateAfter |-> NoDate]),
                          TRUE, ListedOnce(lists.outbound \o lists.inbound)))
    /\ StoreUnchanged

\* bulk: the records of the counterparty the run is at
BulkRecords(pr) == MessagesOfContact(pr.msgs, ourNumbers, pr.contactNumber)

\* if (createdAt > lastMessageAt) { lastMessageAt = createdAt; lastMessageBody = ... }
BulkTrack(pr, body, mediaUrls) ==
    IF pr.createdAt > pr.lastMessageAt
    THEN [pr EXCEPT !.lastMessageAt = pr.createdAt,
                    !.lastMessageBody = OrElseStr(body, IF Len(mediaUrls) > 0 THEN "[Media]" ELSE "")]
    ELSE pr

\* bulk: the loop goes on at record i of the counterparty and runs to its next
\* await: media.list, the write, conversation.update after the last record when
\* lastMessageAt > new Date(0), or channel.findUnique of the next counterparty
RECURSIVE BulkAdvance(_, _, _)
RECURSIVE BulkAfterMedia(_, _, _)
BulkAdvance(pr, i, now) ==
    IF i > Len(BulkRecords(pr))
    THEN IF pr.lastMessageAt > 0 THEN [pr EXCEPT !.pc = "summary", !.i = i]
         ELSE AtContact(pr, pr.k + 1)
    ELSE IF ~Truthy(BulkRecords(pr)[i].sid) THEN BulkAdvance(pr, i + 1, now)
    ELSE IF NeedsMedia(pr.args.includeMedia, BulkRecords(pr)[i])
    THEN [pr EXCEPT !.pc = "media", !.i = i, !.createdAt = CreatedAtOf(BulkRecords(pr)[i], now)]
    ELSE BulkAfterMedia([pr EXCEPT !.i = i, !.createdAt = CreatedAtOf(BulkRecords(pr)[i], now)],
                        <<>>, now)

\* bulk: mediaUrls of record i are known: track the latest message, then write
\* the record or go on to the next
BulkAfterMedia(pr, mediaUrls, now) ==
    IF BulkWrites(BulkRecords(pr)[pr.i], pr.existing)
    THEN [BulkTrack(pr, OrElseStr(BulkRecords(pr)[pr.i].body, ""), mediaUrls)
             EXCEPT !.pc = "write", !.mediaUrls = mediaUrls]
    ELSE BulkAdvance(BulkTrack(pr, OrElseStr(BulkRecords(pr)[pr.i].body, ""), mediaUrls),
                     pr.i + 1, now)

\* prisma.channel.findUnique({ where: { type_identifier } }) of bulk-sync.ts,
\* webhooks.ts and getOrCreateConversation
FindChannelStep(p) ==
    /\ procs[p].pc = "channel"
    /\ LET ch == ChannelFindUnique(CurrentDb, procs[p].channelType, procs[p].contactNumber)
       IN  procs' = [procs EXCEPT ![p] =
                        IF ch # 0
                        THEN [procs[p] EXCEPT !.contactId = channels[ch].contactId, !.pc = "conversation"]
                        ELSE [procs[p] EXCEPT !.pc = "createContact"]]
    /\ StoreUnchanged
    /\ UNCHANGED remote
    /\ StepFrame

ContactCreated(p, rc) ==
    /\ Install(rc.db)
    /\ procs' = [procs EXCEPT ![p] =
                    IF rc.threw # "" THEN Failed(procs[p], rc.threw)
                    ELSE [procs[p] EXCEPT !.contactId = rc.contactId, !.pc = "conversation",
                                          !.acc.contactsCreated = @ + rc.created]]

\* if (!channel) contact = await prisma.contact.create(...)
CreateContactStep(p) ==
    /\ procs[p].pc = "createContact"
    /\ ContactCreated(p, ContactCreate(CurrentDb, procs[p].channelType, procs[p].contactNumber))
    /\ UNCHANGED remote
    /\ StepFrame

\* prisma.conversation.findFirst({ where: { contactId, channelType } })
FindConversationStep(p) ==
    /\ procs[p].pc = "conversation"
    /\ LET cv == ConversationFindFirst(CurrentDb, procs[p].contactId, procs[p].channelType)
       IN  procs' = [procs EXCEPT ![p] =
                        IF cv # 0 THEN [procs[p] EXCEPT !.conversationId = cv, !.pc = "ready"]
                        ELSE [procs[p] EXCEPT !.pc = "createConversation"]]
    /\ StoreUnchanged
    /\ UNCHANGED remote
    /\ StepFrame

\* the conversation is the handler's; POST /api/conversations answers with it
ConversationCreated(p, rv) ==
    /\ Install(rv.db)
    /\ procs' = [procs EXCEPT ![p] =
                    IF rv.threw # "" THEN Failed(procs[p], rv.threw)
                    ELSE [procs[p] EXCEPT !.conversationId = rv.conversationId,
                                          !.pc = IF procs[p].kind = "postConversation"
                                                 THEN "done" ELSE "ready",
                                          !.acc.conversationsCreated = @ + rv.created]]

\* if (!conversation) conversation = await prisma.conversation.create(...)
CreateConversationStep(p) ==
    /\ procs[p].pc = "createConversation"
    /\ ConversationCreated(p, ConversationCreate(CurrentDb, procs[p].contactId, procs[p].channelType))
    /\ UNCHANGED remote
    /\ StepFrame

\* bulk: prisma.message.findMany({ where: { conversationId } })
BulkSnapshot(p) ==
    /\ procs[p].kind = "bulk" /\ procs[p].pc = "ready"
    /\ procs' = [procs EXCEPT ![p] =
                    BulkAdvance([procs[p] EXCEPT !.existing =
                                     FindExistingByConversation(CurrentDb, procs[p].conversationId)],
                                1, clock)]
    /\ StoreUnchanged
    /\ UNCHANGED remote
    /\ StepFrame

\* bulk: media.list() of maybeFetchMediaUrls returned, or threw
BulkMedia(p) ==
    /\ procs[p].kind = "bulk" /\ procs[p].pc = "media"
    /\ procs' = [procs EXCEPT ![p] =
                    BulkAfterMedia(procs[p],
                                   maybeFetchMediaUrls(BulkRecords(procs[p])[procs[p].i].sid,
                                                       OrElseStr(BulkRecords(procs[p])[procs[p].i].numMedia, "0"),
                                                       mediaDown),
                                   clock)]
    /\ StoreUnchanged
    /\ UNCHANGED remote
    /\ StepFrame

\* bulk: the write left r; an exception goes to the catch of the per-contact try
BulkWritten(p, r) ==
    /\ Install(r.db)
    /\ procs' = [procs EXCEPT ![p] =
                    IF r.threw # "" THEN Failed(procs[p], r.threw)
                    ELSE BulkAdvance([procs[p] EXCEPT !.acc.messagesInserted = @ + r.inserted,
                                                      !.acc.messagesUpdated = @ + r.updated],
                                     procs[p].i + 1, clock)]

\* bulk: message.create or the $transaction of one record
BulkWrite(p) ==
    /\ procs[p].kind = "bulk" /\ procs[p].pc = "write"
    /\ BulkWritten(p, BulkUpsert(CurrentDb, BulkRecords(procs[p])[procs[p].i], procs[p].conversationId,
                                 procs[p].channelType, procs[p].existing, procs[p].createdAt,
                                 procs[p].mediaUrls))
    /\ UNCHANGED remote
    /\ StepFrame

\* bulk: prisma.conversation.update({ lastMessage: lastMessageBody || null, lastMessageAt }),
\* then the next counterparty
BulkSummary(p) ==
    /\ procs[p].kind = "bulk" /\ procs[p].pc = "summary"
    /\ Summarised(p, ConversationUpdate(CurrentDb, procs[p].conversationId,
                                        OrElseStr(procs[p].lastMessageBody, NoVal),
                                        procs[p].lastMessageAt),
                  AtContact(procs[p], procs[p].k + 1))
    /\ UNCHANGED remote
    /\ StepFrame

\* ------------------------------------------ POST /webhooks/twilio/status
\* message.findUnique({ where: { twilioSid } }) returned id: an unknown SID is answered 200
StatusFound(pr, id) ==
    IF id = 0 THEN [pr EXCEPT !.pc = "done"]
    ELSE [pr EXCEPT !.messageId = id, !.pc = "event"]

\* the provider posts the status it reports for an outbound message: the request
\* and its message.findUnique; the body is what the provider reported when it
\* posted, and only the report of an error is posted in more than one form
StartStatus(sid, form) ==
    /\ remote[sid] # Absent
    /\ Catalogue[sid].direction # "inbound"
    /\ form # "full" => TwilioRecord(sid, remote[sid]).errorCode # NoCode
    /\ Arrives(StatusFound([Proc("status", "event", StatusPayload(TwilioRecord(sid, remote[sid]), form))
                               EXCEPT !.msgs = <<TwilioRecord(sid, remote[sid])>>],
                           MessageFindBySid(CurrentDb, sid)))
    /\ StoreUnchanged

\* a write of a handler returned r: the handler goes on at pc next having read
\* the clock, or ends with the exception
Written(p, r, next) ==
    /\ Install(r.db)
    /\ procs' = [procs EXCEPT ![p] =
                    IF r.threw # "" THEN Failed(procs[p], r.threw)
                    ELSE [procs[p] EXCEPT !.pc = next, !.at = clock]]

\* status: prisma.statusEvent.create({ data: { messageId, status, rawPayload } })
StatusEvent(p) ==
    /\ procs[p].kind = "status" /\ procs[p].pc = "event"
    /\ Written(p, StatusCallbackEvent(CurrentDb, procs[p].messageId, procs[p].args, clock), "update")
    /\ UNCHANGED remote
    /\ StepFrame

\* status: prisma.message.update({ where: { id }, data: updateData })
StatusUpdate(p) ==
    /\ procs[p].kind = "status" /\ procs[p].pc = "update"
    /\ Written(p, StatusCallbackUpdate(CurrentDb, procs[p].messageId, procs[p].args, procs[p].at, clock),
               "done")
    /\ UNCHANGED remote
    /\ StepFrame

\* ---------------------------------------- POST /webhooks/twilio/incoming
\* webhooks.ts: channel type of an incoming message, from From and NumMedia
incomingChannelType(rec) ==
    IF startsWithWhatsApp(rec.from) THEN "WHATSAPP"
    ELSE IF parseInt(rec.numMedia) > 0 THEN "MMS" ELSE "SMS"

\* the provider posts the inbound message SM2 to /webhooks/twilio/incoming
StartIncoming ==
    /\ remote["SM2"] # Absent
    /\ \A q \in 1..Len(procs) : procs[q].kind # "incoming"
    /\ Arrives([Proc("incoming", "channel", <<>>)
                   EXCEPT !.msgs = <<TwilioRecord("SM2", remote["SM2"])>>,
                          !.channelType = incomingChannelType(TwilioRecord("SM2", remote["SM2"])),
                          !.contactNumber = RemoveFirst(Catalogue["SM2"].from, "whatsapp:")])
    /\ StoreUnchanged

\* the row a handler creates itself (createdAt and updatedAt are the database defaults)
LocalRow(pr, sid, direction, from, to, body, mediaUrls, status, now) ==
    [twilioSid |-> sid, conversationId |-> pr.conversationId, direction |-> direction,
     channelType |-> pr.channelType, from |-> from, to |-> to, body |-> body,
     mediaUrls |-> mediaUrls, status |-> status, errorCode |-> NoVal, errorMessage |-> NoVal,
     sentAt |-> NoDate, deliveredAt |-> NoDate, readAt |-> NoDate,
     createdAt |-> now, updatedAt |-> now]

\* the handler's message.create returned r: the row is its message, or the exception ends it
RowCreated(p, r, next) ==
    /\ Install(r.db)
    /\ procs' = [procs EXCEPT ![p] =
                    IF r.threw = "" THEN [procs[p] EXCEPT !.pc = next, !.messageId = Len(messages) + 1]
                    ELSE Failed(procs[p], r.threw)]

\* incoming: prisma.message.create with the SID, status DELIVERED
IncomingWrite(p) ==
    /\ procs[p].kind = "incoming" /\ procs[p].pc = "ready"
    /\ RowCreated(p, MessageInsert(CurrentDb,
                                   LocalRow(procs[p], procs[p].msgs[1].sid, "INBOUND",
                                            RemoveFirst(procs[p].msgs[1].from, "whatsapp:"),
                                            RemoveFirst(procs[p].msgs[1].to, "whatsapp:"),
                                            OrElseStr(procs[p].msgs[1].body, ""), <<>>, "DELIVERED",
                                            clock)),
                  "event")
    /\ UNCHANGED remote
    /\ StepFrame

\* statusEvent.create of a handler for its own message: the foreign key to messages
OwnEvent(db, messageId, status, now) ==
    IF ~MessageLive(db, messageId) THEN [threw |-> P2003, db |-> db]
    ELSE [threw |-> "", db |-> [db EXCEPT !.statusEvents = StatusEventCreate(@, messageId, status, now)]]

\* incoming: prisma.statusEvent.create({ data: { messageId, status: DELIVERED } })
IncomingEvent(p) ==
    /\ procs[p].kind = "incoming" /\ procs[p].pc = "event"
    /\ Written(p, OwnEvent(CurrentDb, procs[p].messageId, "DELIVERED", clock), "summary")
    /\ UNCHANGED remote
    /\ StepFrame

\* incoming: conversation.update({ lastMessage: Body || '[Media]', lastMessageAt: new Date() })
IncomingSummary(p) ==
    /\ procs[p].kind = "incoming" /\ procs[p].pc = "summary"
    /\ Summarised(p, ConversationUpdate(CurrentDb, procs[p].conversationId,
                                        OrElseStr(procs[p].msgs[1].body, "[Media]"), procs[p].at),
                  [procs[p] EXCEPT !.pc = "done"])
    /\ UNCHANGED remote
    /\ StepFrame

\* ------------------------------------- sendMessage, sendTemplateMessage
\* messaging.ts getFromNumber
getFromNumber(channelType) ==
    IF channelType = "WHATSAPP" THEN OrElse(TWILIO_WHATSAPP_NUMBER, DefaultWhatsAppNumber)
    ELSE OrElse(TWILIO_PHONE_NUMBER, OrElse(TWILIO_MESSAGING_SERVICE_SID, <<>>))

\* the options of a send: conversationId and contactId are <<>> when left out
SendOptions(to, channelType, conversationId, contactId) ==
    [to |-> to, channelType |-> channelType, conversationId |-> conversationId,
     contactId |-> contactId]

\* options.conversationId ? prisma.conversation.findUnique(...) :
\* getOrCreateConversation(to, channelType, contactId), which looks the contact
\* up by contactId when it is given and by the channel otherwise: the first await
Resolving(kind, options) ==
    [Proc(kind,
          IF options.conversationId # <<>> THEN "byId"
          ELSE IF options.contactId # <<>> THEN "contact" ELSE "channel",
          options)
        EXCEPT !.channelType = options.channelType, !.contactNumber = options.to]

\* the addresses messages are sent to, and the SID the provider gives the
\* message sendMessage sends to each
Recipients == {AddrA, AddrB}

SidFor(to) == IF to = AddrA THEN "SM3" ELSE "SM5"

\* the provider has no message sendMessage sent to the address, and no
\* sendMessage to it is in progress
Unsent(to) ==
    /\ remote[SidFor(to)] = Absent
    /\ \A q \in 1..Len(procs) : procs[q].kind = "send" => procs[q].args.to # to

\* sendMessage({ to, channelType, body, mediaUrls, conversationId, contactId })
\* is called for what will be SM3 (to AddrA) or SM5 (to AddrB)
StartSend(to, channelType, conversationId, contactId) ==
    /\ Unsent(to)
    /\ Arrives(Resolving("send", SendOptions(to, channelType, conversationId, contactId)))
    /\ StoreUnchanged

\* POST /api/messages/bulk with { recipients, channelType, body, mediaUrls }:
\* recipients.map calls sendMessage({ to, body, channelType, mediaUrls }) for
\* every recipient, each call runs to its first await, and the route awaits
\* Promise.allSettled of the calls
PostBulk(recipients, channelType) ==
    /\ \A q \in 1..Len(procs) : procs[q].kind # "postBulk"
    /\ \A i, j \in 1..Len(recipients) : i # j => recipients[i] # recipients[j]
    /\ \A i \in 1..Len(recipients) : Unsent(recipients[i])
    /\ procs' = Append(procs, Proc("postBulk", "settle",
                                   [recipients |-> recipients, channelType |-> channelType]))
                    \o [i \in 1..Len(recipients) |->
                           [Resolving("send", SendOptions(recipients[i], channelType, <<>>, <<>>))
                               EXCEPT !.batch = TRUE]]
    /\ ops' = ops + 1
    /\ UNCHANGED <<remote, mediaDown, lists, clock, last>>
    /\ StoreUnchanged

\* postBulk: every sendMessage call of the route has returned or thrown, and
\* Promise.allSettled resolves: total, successful (fulfilled) and failed
\* (rejected) of the response; the calls are over
PostBulkSettled(p) ==
    /\ procs[p].kind = "postBulk" /\ procs[p].pc = "settle"
    /\ \A q \in 1..Len(procs) : procs[q].batch => procs[q].pc = "done"
    /\ LET calls == SelectSeq(procs, LAMBDA pr : pr.batch)
           fulfilled == SelectSeq(calls, LAMBDA pr : pr.acc.threw = "")
       IN  procs' = SelectSeq([procs EXCEPT ![p].pc = "done",
                                            ![p].result =
                                                [total |-> Len(calls), successful |-> Len(fulfilled),
                                                 failed |-> Len(calls) - Len(fulfilled)]],
                              LAMBDA pr : ~pr.batch)
    /\ StoreUnchanged
    /\ UNCHANGED remote
    /\ StepFrame

\* sendTemplateMessage({ to, channelType, contentSid, conversationId, contactId })
\* is called for what will be SM4; it throws for a channel type other than WHATSAPP
StartTemplate(channelType, conversationId, contactId) ==
    /\ remote["SM4"] = Absent
    /\ \A q \in 1..Len(procs) : procs[q].kind # "template"
    /\ LET pr == Resolving("template", SendOptions(stripTransportPrefix(Catalogue["SM4"].to),
                                                   channelType, conversationId, contactId))
       IN  Arrives(IF channelType # "WHATSAPP"
                   THEN Failed(pr, "Template messages are only supported for WhatsApp")
                   ELSE pr)
    /\ StoreUnchanged

\* send, template: prisma.conversation.findUnique({ where: { id: options.conversationId } });
\* if (!conversation) throw
FindConversationById(p) ==
    /\ procs[p].pc = "byId"
    /\ procs' = [procs EXCEPT ![p] =
                    IF ConversationLive(CurrentDb, procs[p].args.conversationId[1])
                    THEN [procs[p] EXCEPT !.conversationId = procs[p].args.conversationId[1],
                                          !.pc = "ready"]
                    ELSE Failed(procs[p], "Failed to create or find conversation")]
    /\ StoreUnchanged
    /\ UNCHANGED remote
    /\ StepFrame

\* getOrCreateConversation: if (contactId) contact = await prisma.contact.findUnique(...)
FindContactStep(p) ==
    /\ procs[p].pc = "contact"
    /\ procs' = [procs EXCEPT ![p] =
                    IF ContactLive(CurrentDb, procs[p].args.contactId[1])
                    THEN [procs[p] EXCEPT !.contactId = procs[p].args.contactId[1],
                                          !.pc = "conversation"]
                    ELSE [procs[p] EXCEPT !.pc = "createContact"]]
    /\ StoreUnchanged
    /\ UNCHANGED remote
    /\ StepFrame

\* send: prisma.message.create without SID, status QUEUED
SendCreateRow(p) ==
    /\ procs[p].kind = "send" /\ procs[p].pc = "ready"
    /\ RowCreated(p, MessageInsert(CurrentDb,
                                   LocalRow(procs[p], NoVal, "OUTBOUND", getFromNumber(procs[p].channelType),
                                            procs[p].contactNumber, Catalogue[SidFor(procs[p].args.to)].body,
                                            << <<"https://cdn.example", "/picture">> >>, "QUEUED",
                                            clock)),
                  "event")
    /\ UNCHANGED remote
    /\ StepFrame

\* send: prisma.statusEvent.create({ data: { messageId, status: QUEUED } })
SendCreateEvent(p) ==
    /\ procs[p].kind = "send" /\ procs[p].pc = "event"
    /\ Written(p, OwnEvent(CurrentDb, procs[p].messageId, "QUEUED", clock), "twilio")
    /\ UNCHANGED remote
    /\ StepFrame

\* the body sendTemplateMessage stores: `[Template: ${options.contentSid}]`
TemplateBody == "[Template: HX1]"

\* template: prisma.message.create without SID, status QUEUED; no StatusEvent follows
TemplateCreateRow(p) ==
    /\ procs[p].kind = "template" /\ procs[p].pc = "ready"
    /\ RowCreated(p, MessageInsert(CurrentDb,
                                   LocalRow(procs[p], NoVal, "OUTBOUND", getFromNumber(procs[p].channelType),
                                            procs[p].contactNumber, TemplateBody, <<>>, "QUEUED", clock)),
                  "twilio")
    /\ UNCHANGED remote
    /\ StepFrame

\* the SID the provider gives the message of the handler
SentSid(pr) == IF pr.kind = "send" THEN SidFor(pr.args.to) ELSE "SM4"

\* what twilioClient.messages.create answers: the status of the message it
\* took, or a rejection
CreateStatuses == {"queued", "accepted", "sending"}
Rejected == "rejected"

\* the error sendSMS, sendWhatsApp and sendWhatsAppTemplate throw from their catch
SendFailure(pr) ==
    IF pr.kind = "template" THEN "Failed to send WhatsApp template"
    ELSE IF pr.channelType = "WHATSAPP" THEN "Failed to send WhatsApp message"
    ELSE "Failed to send SMS"

\* sendMessage has no branch for the channel type; sendTemplateMessage has one branch
Unsupported(pr) == pr.kind = "send" /\ pr.channelType \notin {"WHATSAPP", "SMS", "MMS"}

\* sendSMS: from = env.TWILIO_PHONE_NUMBER || env.TWILIO_MESSAGING_SERVICE_SID; if (!from) throw
NoSender(pr) ==
    /\ pr.kind = "send" /\ pr.channelType \in {"SMS", "MMS"}
    /\ OrElse(TWILIO_PHONE_NUMBER, TWILIO_MESSAGING_SERVICE_SID) = <<>>

\* send, template: sendSMS / sendWhatsApp / sendWhatsAppTemplate.  The throws
\* before messages.create and its rejection end the handler and the provider
\* has no message; otherwise the provider has the message with the status of
\* its answer, which the handler keeps as twilioResult
SendTwilio(p, answer) ==
    /\ procs[p].kind \in {"send", "template"} /\ procs[p].pc = "twilio"
    /\ IF Unsupported(procs[p])
       THEN /\ procs' = [procs EXCEPT ![p] = Failed(procs[p], "Unsupported channel type")]
            /\ UNCHANGED remote
       ELSE IF NoSender(procs[p]) \/ answer = Rejected
       THEN /\ procs' = [procs EXCEPT ![p] = Failed(procs[p], SendFailure(procs[p]))]
            /\ UNCHANGED remote
       ELSE /\ remote' = [remote EXCEPT ![SentSid(procs[p])] = answer]
            /\ procs' = [procs EXCEPT ![p].pc = "update", ![p].at = clock,
                                      ![p].msgs = <<TwilioRecord(SentSid(procs[p]), answer)>>]
    /\ StoreUnchanged
    /\ StepFrame

\* prisma.message.update({ where: { id }, data: { twilioSid, status, sentAt } })
MessageSetSid(db, id, sid, status, sentAt, now) ==
    IF ~MessageLive(db, id) THEN [threw |-> P2025, db |-> db]
    ELSE IF \E i \in 1..Len(db.messages) : i # id /\ db.messages[i].twilioSid = sid
    THEN [threw |-> P2002Sid, db |-> db]
    ELSE [threw |-> "",
          db |-> [db EXCEPT !.messages[id].twilioSid = sid, !.messages[id].status = status,
                            !.messages[id].sentAt = sentAt, !.messages[id].updatedAt = now]]

\* send, template: the row gets the SID and status the provider answered with;
\* sendMessage goes on to the conversation summary, sendTemplateMessage returns
SendUpdate(p) ==
    /\ procs[p].kind \in {"send", "template"} /\ procs[p].pc = "update"
    /\ Written(p, MessageSetSid(CurrentDb, procs[p].messageId, procs[p].msgs[1].sid,
                                mapTwilioStatus(procs[p].msgs[1].status), procs[p].at, clock),
               IF procs[p].kind = "send" THEN "summary" ELSE "done")
    /\ UNCHANGED remote
    /\ StepFrame

\* send: conversation.update({ lastMessage: options.body, lastMessageAt: new Date() })
SendSummary(p) ==
    /\ procs[p].kind = "send" /\ procs[p].pc = "summary"
    /\ Summarised(p, ConversationUpdate(CurrentDb, procs[p].conversationId,
                                        Catalogue[SidFor(procs[p].args.to)].body,
                                        procs[p].at),
                  [procs[p] EXCEPT !.pc = "done"])
    /\ UNCHANGED remote
    /\ StepFrame

\* ------------------------------------------------ DELETE /api/messages/:id
\* message.findUnique returned: 404, 400 for a message that is not queued, or on to the update
CancelFound(pr, db) ==
    IF ~MessageLive(db, pr.args.id) THEN Failed(pr, "Message not found")
    ELSE IF db.messages[pr.args.id].status # "QUEUED"
    THEN Failed(pr, "Only queued messages can be canceled")
    ELSE [pr EXCEPT !.messageId = pr.args.id]

\* DELETE /api/messages/:id is called: the request and its message.findUnique
StartCancel(id) ==
    /\ Arrives(CancelFound(Proc("cancel", "cancel", [id |-> id]), CurrentDb))
    /\ StoreUnchanged

\* prisma.message.update({ where: { id }, data: { status: 'CANCELED' } })
MessageCancel(db, id, now) ==
    IF ~MessageLive(db, id) THEN [threw |-> P2025, db |-> db]
    ELSE [threw |-> "",
          db |-> [db EXCEPT !.messages[id].status = "CANCELED", !.messages[id].updatedAt = now]]

\* cancel: the update
CancelUpdate(p) ==
    /\ procs[p].kind = "cancel" /\ procs[p].pc = "cancel"
    /\ Written(p, MessageCancel(CurrentDb, procs[p].messageId, clock), "done")
    /\ UNCHANGED remote
    /\ StepFrame

\* ---------------------------------------------- the routes of contacts.ts
\* a route whose only await is one write: the request arrives, the write
\* returns r, the handler is left to answer
Served(kind, args, r) ==
    /\ Install(r.db)
    /\ Arrives([Proc(kind, "done", args) EXCEPT !.acc.threw = r.threw])

\* POST /api/contacts with { name, channels }
PostContact(name, chans) ==
    Served("postContact", [name |-> name, channels |-> chans], ContactCreateWith(CurrentDb, name, chans))

\* PUT /api/contacts/:id with { name }
PutContact(id, name) ==
    Served("putContact", [id |-> id, name |-> name], ContactUpdate(CurrentDb, id, name))

\* DELETE /api/contacts/:id
DeleteContact(id) ==
    Served("deleteContact", [id |-> id], ContactDelete(CurrentDb, id))

\* POST /api/contacts/:id/channels with { type, identifier, isPrimary }
PostChannel(contactId, chan) ==
    Served("postChannel", [contactId |-> contactId, channel |-> chan],
           ChannelCreate(CurrentDb, contactId, chan))

\* ------------------------------------------------- POST /api/conversations
\* conversation.findFirst returned cv: 409 when there is one, else on to conversation.create
ConversationChecked(pr, cv) ==
    IF cv # 0 THEN Failed(pr, "CONVERSATION_EXISTS")
    ELSE [pr EXCEPT !.contactId = pr.args.contactId, !.channelType = pr.args.channelType]

\* POST /api/conversations with { contactId, channelType }: the request and its
\* conversation.findFirst
PostConversation(contactId, channelType) ==
    /\ Arrives(ConversationChecked(Proc("postConversation", "createConversation",
                                        [contactId |-> contactId, channelType |-> channelType]),
                                   ConversationFindFirst(CurrentDb, contactId, channelType)))
    /\ StoreUnchanged

\* ------------------------------------------------------- the environment
\* the provider starts to report status st for sid: a new message, a status
\* change, or a stale replica answering; nothing reaches the store
RemoteReport(sid, st) ==
    /\ remote[sid] # st
    /\ remote' = [remote EXCEPT ![sid] = st]
    /\ last' = NoOp("remote")
    /\ ops' = ops + 1
    /\ UNCHANGED <<mediaDown, lists, clock, procs>>
    /\ StoreUnchanged

\* the provider's list-media endpoint goes down or comes back
MediaOutage ==
    /\ mediaDown' = ~mediaDown
    /\ last' = NoOp("remote")
    /\ ops' = ops + 1
    /\ UNCHANGED <<remote, lists, clock, procs>>
    /\ StoreUnchanged

\* the provider moves the message it took on: it is sent
SendProgress == [queued |-> "sent", accepted |-> "sent", sending |-> "sent"]

RaceReport(sid) ==
    /\ remote[sid] \in DOMAIN SendProgress
    /\ remote' = [remote EXCEPT ![sid] = SendProgress[remote[sid]]]
    /\ last' = NoOp("remote")
    /\ UNCHANGED <<mediaDown, lists, clock, ops, procs>>
    /\ StoreUnchanged

\* a millisecond passes
ClockTick ==
    /\ clock < ClockAtStart + MaxTicks
    /\ clock' = clock + 1
    /\ UNCHANGED <<remote, mediaDown, lists, last, ops, procs>>
    /\ StoreUnchanged

\* ------------------------------------------------- Spec: one call at a time
\* Requests are made one after the other, each after the one before it was
\* answered, and the provider changes between them: what a sequence of calls
\* leaves.  The calls that overlap are in SpecRace.
Init ==
    /\ contacts = <<>>
    /\ channels = <<>>
    /\ conversations = <<>>
    /\ messages = <<>>
    /\ statusEvents = <<>>
    /\ remote = [sid \in SIDs |-> Absent]
    /\ mediaDown = FALSE
    /\ lists = <<>>
    /\ clock = ClockAtStart
    /\ last = NoOp("init")
    /\ ops = 0
    /\ procs = <<>>

\* no request is in progress and the behaviour may go on
Serial == procs = <<>> /\ ops < MaxOps

\* options.limit: one record, or left out
LimitChoices == {1, DefaultLimit}

DateAfterChoices == {NoDate, 2}

Next ==
    \/ \E sid \in SIDs : \E st \in RemoteStatuses[sid] : Serial /\ RemoteReport(sid, st)
    \/ Serial /\ MediaOutage
    \/ \E sid \in SIDs, form \in StatusForms : Serial /\ StartStatus(sid, form)
    \/ \E conversationId \in 1..(Len(conversations) + 1), limit \in LimitChoices, includeMedia \in BOOLEAN :
          Serial /\ StartSync(conversationId, limit, includeMedia)
    \/ \E includeMedia \in BOOLEAN, dateAfter \in DateAfterChoices, fetchOk \in BOOLEAN :
          Serial /\ StartBulk(includeMedia, dateAfter, fetchOk)
    \/ \E p \in 1..Len(procs) : \E fetchOk \in BOOLEAN : SyncList(p, fetchOk)
    \/ \E p \in 1..Len(procs) : SyncSnapshot(p)
    \/ \E p \in 1..Len(procs) : SyncMedia(p)
    \/ \E p \in 1..Len(procs) : SyncWrite(p)
    \/ \E p \in 1..Len(procs) : SyncSummary(p)
    \/ \E p \in 1..Len(procs) : FindChannelStep(p)
    \/ \E p \in 1..Len(procs) : CreateContactStep(p)
    \/ \E p \in 1..Len(procs) : FindConversationStep(p)
    \/ \E p \in 1..Len(procs) : CreateConversationStep(p)
    \/ \E p \in 1..Len(procs) : BulkSnapshot(p)
    \/ \E p \in 1..Len(procs) : BulkMedia(p)
    \/ \E p \in 1..Len(procs) : BulkWrite(p)
    \/ \E p \in 1..Len(procs) : BulkSummary(p)
    \/ \E p \in 1..Len(procs) : StatusEvent(p)
    \/ \E p \in 1..Len(procs) : StatusUpdate(p)
    \/ \E p \in 1..Len(procs) : Respond(p)

Spec == Init /\ [][Next]_vars

TypeOK == ops \in 0..MaxOps /\ Len(procs) <= 1

\* ------------------------------------------- SpecLists: any two result lists
\* syncConversationFromTwilio run once on two arbitrary provider answers:
\* records in any order, the same SID possibly in both, equal timestamps.
PoolSids == {"SMa", "SMb", "SMc", "SMd"}

Pool ==
    [sid \in PoolSids |->
        CASE sid = "SMa" -> [sid |-> sid, from |-> AddrA, to |-> getOurPhoneNumber, body |-> "first",
                             status |-> "received", direction |-> "inbound", numMedia |-> "0",
                             dateCreated |-> 1, dateUpdated |-> 1, dateSent |-> 1, errorCode |-> NoCode,
                             errorMessage |-> NoVal]
          [] sid = "SMb" -> [sid |-> sid, from |-> getOurPhoneNumber, to |-> AddrA, body |-> "second",
                             status |-> "delivered", direction |-> "outbound-api", numMedia |-> "0",
                             dateCreated |-> 2, dateUpdated |-> 3, dateSent |-> 2, errorCode |-> NoCode,
                             errorMessage |-> NoVal]
          [] sid = "SMc" -> [sid |-> sid, from |-> AddrA, to |-> getOurPhoneNumber, body |-> "",
                             status |-> "received", direction |-> "inbound", numMedia |-> "1",
                             dateCreated |-> 3, dateUpdated |-> 3, dateSent |-> 3, errorCode |-> NoCode,
                             errorMessage |-> NoVal]
          [] sid = "SMd" -> [sid |-> sid, from |-> getOurPhoneNumber, to |-> AddrA, body |-> "tie",
                             status |-> "sent", direction |-> "outbound-api", numMedia |-> "0",
                             dateCreated |-> 2, dateUpdated |-> 2, dateSent |-> 2, errorCode |-> NoCode,
                             errorMessage |-> NoVal]]

\* every list of at most MaxListLen different records
ListChoices ==
    UNION {{[i \in 1..n |-> Pool[f[i]]] :
                f \in {g \in [1..n -> PoolSids] : \A i, j \in 1..n : i # j => g[i] # g[j]}} :
           n \in 0..MaxListLen}

\* the store once contact AddrA with its SMS channel and conversation exists
ResolvedDb ==
    ConversationCreate(ContactCreate(EmptyDb, "SMS", AddrA).db, 1, "SMS").db

InitLists ==
    /\ contacts = ResolvedDb.contacts
    /\ channels = ResolvedDb.channels
    /\ conversations = ResolvedDb.conversations
    /\ messages = <<>>
    /\ statusEvents = <<>>
    /\ remote = [sid \in SIDs |-> Absent]
    /\ mediaDown = FALSE
    /\ lists \in [outbound : ListChoices, inbound : ListChoices]
    /\ clock = ClockAtStart
    /\ last = NoOp("init")
    /\ ops = 0
    /\ procs = <<>>

\* no request was made yet
Once == procs = <<>> /\ last.op = "init"

\* one run of syncConversationFromTwilio on conversation 1 with the two lists as the answers
NextLists ==
    \/ \E limit \in (1..MaxLimit) \cup {DefaultLimit}, includeMedia \in BOOLEAN :
          Once /\ StartSync(1, limit, includeMedia)
    \/ \E p \in 1..Len(procs) : SyncListGiven(p)
    \/ \E p \in 1..Len(procs) : SyncSnapshot(p)
    \/ \E p \in 1..Len(procs) : SyncMedia(p)
    \/ \E p \in 1..Len(procs) : SyncWrite(p)
    \/ \E p \in 1..Len(procs) : SyncSummary(p)
    \/ \E p \in 1..Len(procs) : Respond(p)

SpecLists == InitLists /\ [][NextLists]_vars

\* --------------------------- SpecRepeat: runs over answers that repeat SIDs
\* syncConversationFromTwilio on conversation 1 and bulkSyncFromTwilio, MaxRuns
\* runs in any order and one after the other, on the answers of SpecLists: the
\* two directional queries may both return a record, and every run is answered
\* with the same records as the run before it.
Again == procs = <<>> /\ ops < MaxRuns

NextRepeat ==
    \/ \E includeMedia \in BOOLEAN : Again /\ StartSync(1, DefaultLimit, includeMedia)
    \/ \E includeMedia \in BOOLEAN : Again /\ StartBulkGiven(includeMedia)
    \/ \E p \in 1..Len(procs) : SyncListGiven(p)
    \/ \E p \in 1..Len(procs) : SyncSnapshot(p)
    \/ \E p \in 1..Len(procs) : SyncMedia(p)
    \/ \E p \in 1..Len(procs) : SyncWrite(p)
    \/ \E p \in 1..Len(procs) : SyncSummary(p)
    \/ \E p \in 1..Len(procs) : FindChannelStep(p)
    \/ \E p \in 1..Len(procs) : CreateContactStep(p)
    \/ \E p \in 1..Len(procs) : FindConversationStep(p)
    \/ \E p \in 1..Len(procs) : CreateConversationStep(p)
    \/ \E p \in 1..Len(procs) : BulkSnapshot(p)
    \/ \E p \in 1..Len(procs) : BulkMedia(p)
    \/ \E p \in 1..Len(procs) : BulkWrite(p)
    \/ \E p \in 1..Len(procs) : BulkSummary(p)
    \/ \E p \in 1..Len(procs) : Respond(p)

SpecRepeat == InitLists /\ [][NextRepeat]_vars

\* ------------------------------ SpecChannels: any channels of the contact
\* A contact is registered through POST /api/contacts, channels are added
\* through POST /api/contacts/:id/channels, conversations are opened through
\* POST /api/conversations, and the conversations are synced; one request at a time.
ContactName == <<"Ann">>

ChannelChoices ==
    {[type |-> t, identifier |-> a, isPrimary |-> p] :
        t \in {"SMS", "WHATSAPP"}, a \in {AddrA, AddrB}, p \in {<<TRUE>>, <<FALSE>>, <<>>}}

\* the channels array of the request body: left out, or one channel
BodyChannels == {<<>>} \cup {<<c>> : c \in ChannelChoices}

InitChannels ==
    /\ contacts = <<>>
    /\ channels = <<>>
    /\ conversations = <<>>
    /\ messages = <<>>
    /\ statusEvents = <<>>
    /\ remote = [sid \in SIDs |-> CASE sid = "SM2" -> "received"
                                    [] sid = "SM5" -> Absent
                                    [] OTHER -> "delivered"]
    /\ mediaDown = FALSE
    /\ lists = <<>>
    /\ clock = ClockAtStart
    /\ last = NoOp("init")
    /\ ops = 0
    /\ procs = <<>>

\* no request is in progress and the behaviour may go on: the contact, its
\* channels, a conversation and a sync
Idle == procs = <<>> /\ ops < MaxChannels + 3

NextChannels ==
    \/ \E chans \in BodyChannels : Idle /\ contacts = <<>> /\ PostContact(ContactName, chans)
    \/ \E chan \in ChannelChoices :
          Idle /\ contacts # <<>> /\ Len(channels) < MaxChannels /\ PostChannel(1, chan)
    \/ \E channelType \in {"SMS", "WHATSAPP"} :
          Idle /\ contacts # <<>> /\ PostConversation(1, channelType)
    \/ \E conversationId \in 1..(Len(conversations) + 1), includeMedia \in BOOLEAN :
          Idle /\ StartSync(conversationId, DefaultLimit, includeMedia)
    \/ \E p \in 1..Len(procs) : \E fetchOk \in BOOLEAN : SyncList(p, fetchOk)
    \/ \E p \in 1..Len(procs) : SyncSnapshot(p)
    \/ \E p \in 1..Len(procs) : SyncMedia(p)
    \/ \E p \in 1..Len(procs) : SyncWrite(p)
    \/ \E p \in 1..Len(procs) : SyncSummary(p)
    \/ \E p \in 1..Len(procs) : CreateConversationStep(p)
    \/ \E p \in 1..Len(procs) : Respond(p)

SpecChannels == InitChannels /\ [][NextChannels]_vars

\* ------------------------------------ SpecRace: requests that overlap
\* Any MaxProcs requests, each arriving at any time: before, while or after
\* the other is served.
\* the provider's view at the start: SM1 delivered, SM2 received, SM3 and SM4 not yet sent
RemoteAtStart ==
    [sid \in SIDs |-> CASE sid = "SM1" -> "delivered"
                        [] sid = "SM2" -> "received"
                        [] OTHER -> Absent]

\* the store a bulk run has left of that view: counterparty AddrA with SM2,
\* then counterparty AddrB with SM1
SyncedDb ==
    LET a == BulkUpsert(ResolvedDb, TwilioRecord("SM2", "received"), 1, "SMS", {},
                        Catalogue["SM2"].dateCreated, <<>>).db
        b == ConversationUpdate(a, 1, Catalogue["SM2"].body, Catalogue["SM2"].dateCreated).db
        c == ConversationCreate(ContactCreate(b, "WHATSAPP", AddrB).db, 2, "WHATSAPP").db
        d == BulkUpsert(c, TwilioRecord("SM1", "delivered"), 2, "WHATSAPP", {},
                        Catalogue["SM1"].dateCreated, <<>>).db
    IN  ConversationUpdate(d, 2, Catalogue["SM1"].body, Catalogue["SM1"].dateCreated).db

\* the store is empty, holds the contact only, or was synced before SM1 was read
RaceSetups ==
    {[db |-> EmptyDb, remote |-> RemoteAtStart],
     [db |-> ResolvedDb, remote |-> RemoteAtStart],
     [db |-> SyncedDb, remote |-> [RemoteAtStart EXCEPT !["SM1"] = "read"]]}

InitRace ==
    /\ \E setup \in RaceSetups :
          /\ contacts = setup.db.contacts
          /\ channels = setup.db.channels
          /\ conversations = setup.db.conversations
          /\ messages = setup.db.messages
          /\ statusEvents = setup.db.statusEvents
          /\ remote = setup.remote
    /\ mediaDown = FALSE
    /\ lists = <<>>
    /\ clock = ClockAtStart
    /\ last = NoOp("init")
    /\ ops = 0
    /\ procs = <<>>

\* another request may arrive
Open == ops < MaxProcs

\* the bodies of POST /api/contacts: a name only, or a name and the SMS channel of AddrA
RaceBodies == {<<>>, <<[type |-> "SMS", identifier |-> AddrA, isPrimary |-> <<>>]>>}

\* options.channelType of a send: the type of the message, or one sendMessage
\* has no branch for; of a template send: WHATSAPP, or another type
SendChannels == {"MMS", "MESSENGER"}
TemplateChannels == {"WHATSAPP", "SMS"}

\* options.conversationId and options.contactId of a send: both left out, or
\* one of them given as the id of a row or as an id no row has
SendTargets ==
    {[conversationId |-> <<>>, contactId |-> <<>>]}
        \cup {[conversationId |-> <<c>>, contactId |-> <<>>] : c \in 1..(Len(conversations) + 1)}
        \cup {[conversationId |-> <<>>, contactId |-> <<k>>] : k \in 1..(Len(contacts) + 1)}

\* the recipients array of POST /api/messages/bulk: addresses, each at most once
RecipientLists ==
    UNION {{r \in [1..n -> Recipients] : \A i, j \in 1..n : i # j => r[i] # r[j]} : n \in 0..2}

\* the answers of messages.create
CreateAnswers == CreateStatuses \cup {Rejected}

\* the body of POST /api/contacts/:id/channels
RaceChannel == [type |-> "WHATSAPP", identifier |-> AddrA, isPrimary |-> <<>>]

NextRace ==
    \/ RaceReport(SidFor(AddrA))
    \/ Open /\ StartBulk(TRUE, NoDate, TRUE)
    \/ Open /\ StartIncoming
    \/ \E channelType \in SendChannels, target \in SendTargets :
          Open /\ StartSend(AddrA, channelType, target.conversationId, target.contactId)
    \/ \E channelType \in TemplateChannels, target \in SendTargets :
          Open /\ StartTemplate(channelType, target.conversationId, target.contactId)
    \/ \E sid \in SIDs, form \in StatusForms : Open /\ StartStatus(sid, form)
    \/ \E id \in 1..Len(messages) : Open /\ StartCancel(id)
    \/ \E conversationId \in 1..Len(conversations) : Open /\ StartSync(conversationId, DefaultLimit, TRUE)
    \/ \E chans \in RaceBodies : Open /\ PostContact(ContactName, chans)
    \/ \E id \in 1..Len(contacts) : Open /\ PutContact(id, <<"Bob">>)
    \/ \E id \in 1..Len(contacts) : Open /\ DeleteContact(id)
    \/ \E id \in 1..Len(contacts) : Open /\ PostChannel(id, RaceChannel)
    \/ \E id \in 1..Len(contacts), channelType \in {"SMS", "WHATSAPP"} :
          Open /\ PostConversation(id, channelType)
    \/ \E p \in 1..Len(procs) : SyncList(p, TRUE)
    \/ \E p \in 1..Len(procs) : SyncSnapshot(p)
    \/ \E p \in 1..Len(procs) : SyncMedia(p)
    \/ \E p \in 1..Len(procs) : SyncWrite(p)
    \/ \E p \in 1..Len(procs) : SyncSummary(p)
    \/ \E p \in 1..Len(procs) : FindConversationById(p)
    \/ \E p \in 1..Len(procs) : FindContactStep(p)
    \/ \E p \in 1..Len(procs) : FindChannelStep(p)
    \/ \E p \in 1..Len(procs) : CreateContactStep(p)
    \/ \E p \in 1..Len(procs) : FindConversationStep(p)
    \/ \E p \in 1..Len(procs) : CreateConversationStep(p)
    \/ \E p \in 1..Len(procs) : BulkSnapshot(p)
    \/ \E p \in 1..Len(procs) : BulkMedia(p)
    \/ \E p \in 1..Len(procs) : BulkWrite(p)
    \/ \E p \in 1..Len(procs) : BulkSummary(p)
    \/ \E p \in 1..Len(procs) : IncomingWrite(p)
    \/ \E p \in 1..Len(procs) : IncomingEvent(p)
    \/ \E p \in 1..Len(procs) : IncomingSummary(p)
    \/ \E p \in 1..Len(procs) : SendCreateRow(p)
    \/ \E p \in 1..Len(procs) : SendCreateEvent(p)
    \/ \E p \in 1..Len(procs) : TemplateCreateRow(p)
    \/ \E p \in 1..Len(procs) : \E answer \in CreateAnswers : SendTwilio(p, answer)
    \/ \E p \in 1..Len(procs) : SendUpdate(p)
    \/ \E p \in 1..Len(procs) : SendSummary(p)
    \/ \E p \in 1..Len(procs) : StatusEvent(p)
    \/ \E p \in 1..Len(procs) : StatusUpdate(p)
    \/ \E p \in 1..Len(procs) : CancelUpdate(p)
    \/ \E p \in 1..Len(procs) : Respond(p)

SpecRace == InitRace /\ [][NextRace]_vars

\* ------------------- SpecResolve: the callers of the resolution, overlapping
\* bulkSyncFromTwilio, sendMessage and the incoming webhook, each of which
\* resolves contact, channel and conversation of an address, and no other request.
NextResolve ==
    \/ Open /\ StartBulk(TRUE, NoDate, TRUE)
    \/ Open /\ StartIncoming
    \/ \E channelType \in SendChannels, target \in SendTargets :
          Open /\ StartSend(AddrA, channelType, target.conversationId, target.contactId)
    \/ \E p \in 1..Len(procs) : FindConversationById(p)
    \/ \E p \in 1..Len(procs) : FindContactStep(p)
    \/ \E p \in 1..Len(procs) : FindChannelStep(p)
    \/ \E p \in 1..Len(procs) : CreateContactStep(p)
    \/ \E p \in 1..Len(procs) : FindConversationStep(p)
    \/ \E p \in 1..Len(procs) : CreateConversationStep(p)
    \/ \E p \in 1..Len(procs) : BulkSnapshot(p)
    \/ \E p \in 1..Len(procs) : BulkMedia(p)
    \/ \E p \in 1..Len(procs) : BulkWrite(p)
    \/ \E p \in 1..Len(procs) : BulkSummary(p)
    \/ \E p \in 1..Len(procs) : IncomingWrite(p)
    \/ \E p \in 1..Len(procs) : IncomingEvent(p)
    \/ \E p \in 1..Len(procs) : IncomingSummary(p)
    \/ \E p \in 1..Len(procs) : SendCreateRow(p)
    \/ \E p \in 1..Len(procs) : SendCreateEvent(p)
    \/ \E p \in 1..Len(procs) : \E answer \in CreateAnswers : SendTwilio(p, answer)
    \/ \E p \in 1..Len(procs) : SendUpdate(p)
    \/ \E p \in 1..Len(procs) : SendSummary(p)
    \/ \E p \in 1..Len(procs) : Respond(p)

SpecResolve == InitRace /\ [][NextResolve]_vars

\* ------------------- SpecBatch: the sends of POST /api/messages/bulk
\* POST /api/messages/bulk, whose sendMessage calls are in progress together,
\* syncConversationFromTwilio and bulkSyncFromTwilio: MaxProcs requests, each
\* made after the one before it was answered.
Settled == procs = <<>> /\ ops < MaxProcs

NextBatch ==
    \/ \E to \in Recipients : RaceReport(SidFor(to))
    \/ \E recipients \in RecipientLists, channelType \in SendChannels :
          Settled /\ PostBulk(recipients, channelType)
    \/ Settled /\ StartBulk(TRUE, NoDate, TRUE)
    \/ \E conversationId \in 1..Len(conversations) : Settled /\ StartSync(conversationId, DefaultLimit, TRUE)
    \/ \E p \in 1..Len(procs) : SyncList(p, TRUE)
    \/ \E p \in 1..Len(procs) : SyncSnapshot(p)
    \/ \E p \in 1..Len(procs) : SyncMedia(p)
    \/ \E p \in 1..Len(procs) : SyncWrite(p)
    \/ \E p \in 1..Len(procs) : SyncSummary(p)
    \/ \E p \in 1..Len(procs) : FindChannelStep(p)
    \/ \E p \in 1..Len(procs) : CreateContactStep(p)
    \/ \E p \in 1..Len(procs) : FindConversationStep(p)
    \/ \E p \in 1..Len(procs) : CreateConversationStep(p)
    \/ \E p \in 1..Len(procs) : BulkSnapshot(p)
    \/ \E p \in 1..Len(procs) : BulkMedia(p)
    \/ \E p \in 1..Len(procs) : BulkWrite(p)
    \/ \E p \in 1..Len(procs) : BulkSummary(p)
    \/ \E p \in 1..Len(procs) : SendCreateRow(p)
    \/ \E p \in 1..Len(procs) : SendCreateEvent(p)
    \/ \E p \in 1..Len(procs) : \E answer \in CreateAnswers : SendTwilio(p, answer)
    \/ \E p \in 1..Len(procs) : SendUpdate(p)
    \/ \E p \in 1..Len(procs) : SendSummary(p)
    \/ \E p \in 1..Len(procs) : PostBulkSettled(p)
    \/ \E p \in 1..Len(procs) : Respond(p)

SpecBatch == InitRace /\ [][NextBatch]_vars

\* ----------------------------- SpecCalls: the handlers one after the other
\* sendMessage, syncConversationFromTwilio and bulkSyncFromTwilio called in any
\* order, MaxCalls calls, each after the one before has returned
Turn == procs = <<>> /\ ops < MaxCalls

NextCalls ==
    \/ RaceReport(SidFor(AddrA))
    \/ Turn /\ StartBulk(TRUE, NoDate, TRUE)
    \/ \E channelType \in SendChannels, target \in SendTargets :
          Turn /\ StartSend(AddrA, channelType, target.conversationId, target.contactId)
    \/ \E conversationId \in 1..Len(conversations) : Turn /\ StartSync(conversationId, DefaultLimit, TRUE)
    \/ \E p \in 1..Len(procs) : SyncList(p, TRUE)
    \/ \E p \in 1..Len(procs) : SyncSnapshot(p)
    \/ \E p \in 1..Len(procs) : SyncMedia(p)
    \/ \E p \in 1..Len(procs) : SyncWrite(p)
    \/ \E p \in 1..Len(procs) : SyncSummary(p)
    \/ \E p \in 1..Len(procs) : FindConversationById(p)
    \/ \E p \in 1..Len(procs) : FindContactStep(p)
    \/ \E p \in 1..Len(procs) : FindChannelStep(p)
    \/ \E p \in 1..Len(procs) : CreateContactStep(p)
    \/ \E p \in 1..Len(procs) : FindConversationStep(p)
    \/ \E p \in 1..Len(procs) : CreateConversationStep(p)
    \/ \E p \in 1..Len(procs) : BulkSnapshot(p)
    \/ \E p \in 1..Len(procs) : BulkMedia(p)
    \/ \E p \in 1..Len(procs) : BulkWrite(p)
    \/ \E p \in 1..Len(procs) : BulkSummary(p)
    \/ \E p \in 1..Len(procs) : SendCreateRow(p)
    \/ \E p \in 1..Len(procs) : SendCreateEvent(p)
    \/ \E p \in 1..Len(procs) : \E answer \in CreateAnswers : SendTwilio(p, answer)
    \/ \E p \in 1..Len(procs) : SendUpdate(p)
    \/ \E p \in 1..Len(procs) : SendSummary(p)
    \/ \E p \in 1..Len(procs) : Respond(p)

SpecCalls == InitRace /\ [][NextCalls]_vars

\* ------------------------------ SpecRecords: the helpers on one raw record
\* mapTwilioStatus, the two direction rules and maybeFetchMediaUrls applied to
\* one record of the provider.  A second number of the account, which the
\* environment does not name, also sends and receives.
AddrQ == <<"+", "7">>

\* from, to and the direction the provider declares for them
RouteChoices ==
    {[from |-> AddrA, to |-> getOurPhoneNumber, direction |-> "inbound"],
     [from |-> getOurPhoneNumber, to |-> AddrA, direction |-> "outbound-api"],
     [from |-> getOurPhoneNumber, to |-> AddrA, direction |-> "outbound-reply"],
     [from |-> <<"whatsapp:">> \o AddrB, to |-> getOurWhatsAppNumber, direction |-> "inbound"],
     [from |-> getOurWhatsAppNumber, to |-> <<"whatsapp:">> \o AddrB, direction |-> "outbound-api"],
     [from |-> AddrQ, to |-> AddrA, direction |-> "outbound-api"],
     [from |-> AddrQ, to |-> getOurPhoneNumber, direction |-> "inbound"],
     [from |-> AddrQ, to |-> getOurPhoneNumber, direction |-> "outbound-api"]}

StatusChoices ==
    {"queued", "sending", "sent", "delivered", "undelivered", "failed", "read", "canceled",
     "received", "accepted", "DELIVERED", "Sent", "QUEUED", "", "constructor", "Constructor",
     "__proto__"}

NumMediaChoices == {NoVal, "0", "1", "2", "-1"}

RecordChoices ==
    {[sid |-> "SM1", from |-> route.from, to |-> route.to, body |-> "", status |-> st,
      direction |-> route.direction, numMedia |-> numMedia, dateCreated |-> 1, dateUpdated |-> 1,
      dateSent |-> 1, errorCode |-> NoCode,
      errorMessage |-> NoVal] :
        route \in RouteChoices, st \in StatusChoices, numMedia \in NumMediaChoices}

InitRecords ==
    /\ contacts = <<>>
    /\ channels = <<>>
    /\ conversations = <<>>
    /\ messages = <<>>
    /\ statusEvents = <<>>
    /\ remote = [sid \in SIDs |-> Absent]
    /\ mediaDown \in BOOLEAN
    /\ lists \in [record : RecordChoices]
    /\ clock = ClockAtStart
    /\ last = NoOp("init")
    /\ ops = 0
    /\ procs = <<>>

RecordsFrame ==
    UNCHANGED <<contacts, channels, conversations, messages, statusEvents, remote, mediaDown,
                lists, clock, procs>>

Applied(kind, args, result) == [NoOp(kind) EXCEPT !.args = args, !.result = result]

MapStatus ==
    /\ last.op = "init"
    /\ last' = Applied("mapTwilioStatus", lists.record.status, mapTwilioStatus(lists.record.status))
    /\ ops' = ops + 1
    /\ RecordsFrame

InferDirection ==
    /\ last.op = "init"
    /\ last' = Applied("inferDirection", lists.record,
                       [history |-> inferDirectionFromTwilioMessage(lists.record),
                        bulk |-> bulkInferDirectionFromTwilioMessage(lists.record, ourNumbers)])
    /\ ops' = ops + 1
    /\ RecordsFrame

FetchMedia ==
    /\ last.op = "init"
    /\ last' = Applied("maybeFetchMediaUrls", lists.record.numMedia,
                       [urls |-> maybeFetchMediaUrls(lists.record.sid, lists.record.numMedia, mediaDown),
                        calls |-> MediaListCalls(lists.record.numMedia)])
    /\ ops' = ops + 1
    /\ RecordsFrame

NextRecords == MapStatus \/ InferDirection \/ FetchMedia

SpecRecords == InitRecords /\ [][NextRecords]_vars

\* ------------------ SpecSparse: answers with records that lack a field
\* One run of syncConversationFromTwilio or of bulkSyncFromTwilio on answers
\* that also hold records without a SID and records without dateCreated, while
\* the clock moves on.
NoSidRecords ==
    {[sid |-> NoVal, from |-> AddrA, to |-> getOurPhoneNumber, body |-> "anon-in",
      status |-> "received", direction |-> "inbound", numMedia |-> "0",
      dateCreated |-> 1, dateUpdated |-> 1, dateSent |-> 1, errorCode |-> NoCode,
      errorMessage |-> NoVal],
     [sid |-> NoVal, from |-> getOurPhoneNumber, to |-> AddrA, body |-> "anon-out",
      status |-> "sent", direction |-> "outbound-api", numMedia |-> "0",
      dateCreated |-> 2, dateUpdated |-> 2, dateSent |-> 2, errorCode |-> NoCode,
      errorMessage |-> NoVal]}

\* SM2 and SM3 as the provider would list them without dateCreated
NoDateRecords ==
    {[TwilioRecord("SM2", "received") EXCEPT !.dateCreated = NoDate],
     [TwilioRecord("SM3", "delivered") EXCEPT !.dateCreated = NoDate]}

SparsePool == NoSidRecords \cup NoDateRecords \cup {Pool["SMa"], Pool["SMb"]}

\* every list of at most MaxListLen different records of the pool
SparseChoices ==
    UNION {{f \in [1..n -> SparsePool] : \A i, j \in 1..n : i # j => f[i] # f[j]} : n \in 0..MaxListLen}

\* no record is in both lists
InitSparse ==
    /\ contacts = ResolvedDb.contacts
    /\ channels = ResolvedDb.channels
    /\ conversations = ResolvedDb.conversations
    /\ messages = <<>>
    /\ statusEvents = <<>>
    /\ remote = [sid \in SIDs |-> Absent]
    /\ mediaDown = FALSE
    /\ lists \in {l \in [outbound : SparseChoices, inbound : SparseChoices] :
                    Range(l.outbound) \cap Range(l.inbound) = {}}
    /\ clock = ClockAtStart
    /\ last = NoOp("init")
    /\ ops = 0
    /\ procs = <<>>

NextSparse ==
    \/ ClockTick
    \/ \E limit \in {1, DefaultLimit}, includeMedia \in BOOLEAN : Once /\ StartSync(1, limit, includeMedia)
    \/ \E includeMedia \in BOOLEAN : Once /\ StartBulkGiven(includeMedia)
    \/ \E p \in 1..Len(procs) : SyncListGiven(p)
    \/ \E p \in 1..Len(procs) : SyncSnapshot(p)
    \/ \E p \in 1..Len(procs) : SyncMedia(p)
    \/ \E p \in 1..Len(procs) : SyncWrite(p)
    \/ \E p \in 1..Len(procs) : SyncSummary(p)
    \/ \E p \in 1..Len(procs) : FindChannelStep(p)
    \/ \E p \in 1..Len(procs) : CreateContactStep(p)
    \/ \E p \in 1..Len(procs) : FindConversationStep(p)
    \/ \E p \in 1..Len(procs) : CreateConversationStep(p)
    \/ \E p \in 1..Len(procs) : BulkSnapshot(p)
    \/ \E p \in 1..Len(procs) : BulkMedia(p)
    \/ \E p \in 1..Len(procs) : BulkWrite(p)
    \/ \E p \in 1..Len(procs) : BulkSummary(p)
    \/ \E p \in 1..Len(procs) : Respond(p)

SpecSparse == InitSparse /\ [][NextSparse]_vars

\* ================================================================ claims
\* the handlers of the given kinds that have run to their end and have not
\* answered yet: before is the store they were called on, acc what they return
Returned(kinds) == {p \in 1..Len(procs) : procs[p].pc = "done" /\ procs[p].kind \in kinds}

Runs == Returned({"sync", "bulk"})

\* every handler that was started has run to its end
Quiescent == \A p \in 1..Len(procs) : procs[p].pc = "done"

\* handler p, a run of either entry point, takes a step
RunStepOf(p) ==
    /\ procs[p].kind \in {"sync", "bulk"}
    /\ Len(procs') = Len(procs)
    /\ procs'[p] # procs[p]

RunStep == \E p \in 1..Len(procs) : RunStepOf(p)

RowsWithSid(msgs, sid) == {i \in 1..Len(msgs) : msgs[i].twilioSid = sid}

\* the counterparties a bulk run reported an error for
FailedContacts(pr) == {pr.acc.errors[i][2] : i \in 1..Len(pr.acc.errors)}

\* the SIDs whose upsert the run completed
UpsertedSids(pr) ==
    IF pr.kind = "sync" /\ pr.acc.threw = ""
    THEN {pr.msgs[i].sid : i \in 1..Len(pr.msgs)}
    ELSE IF pr.kind = "bulk" /\ pr.acc.threw = ""
    THEN {pr.msgs[i].sid : i \in {j \in 1..Len(pr.msgs) :
                ContactNumberOf(pr.msgs[j], ourNumbers) \notin FailedContacts(pr)}}
    ELSE {}

\* C1: after any sequence of runs of both entry points over records in which
\* SIDs repeat, across the two directional queries or across runs, no two
\* Message rows carry the same non-null SID, and every SID a run has upserted
\* has exactly one row.
C1_OneRowPerSid ==
    /\ \A i, j \in 1..Len(messages) :
          (i # j /\ messages[i].twilioSid # NoVal) => messages[i].twilioSid # messages[j].twilioSid
    /\ \A p \in Runs :
          \A sid \in UpsertedSids(procs[p]) : Cardinality(RowsWithSid(messages, sid)) = 1

\* a syncConversation run repeated the run before it on two answers that both
\* hold a SID: the records listed are more than the SIDs, and each SID has its row
C1_Witness ==
    \E p \in Returned({"sync"}) :
        /\ procs[p].repeat /\ procs[p].acc.threw = ""
        /\ \E i \in 1..Len(lists.outbound), j \in 1..Len(lists.inbound) :
              lists.outbound[i].sid = lists.inbound[j].sid
        /\ Cardinality(UpsertedSids(procs[p])) >= 2
        /\ Len(lists.outbound) + Len(lists.inbound) > Cardinality(UpsertedSids(procs[p]))
        /\ Len(messages) = Cardinality(UpsertedSids(procs[p]))

\* C2: a syncConversation run that repeats the run before it (same conversation,
\* same options, nothing changed at the provider, no other request in between)
\* reports inserted = 0 and updated = 0 and has written no Message row and no
\* StatusEvent.
C2_SecondSyncWritesNothing ==
    \A p \in Returned({"sync"}) :
        (procs[p].repeat /\ procs[p].acc.threw = "")
            => /\ procs[p].acc.messagesInserted = 0
               /\ procs[p].acc.messagesUpdated = 0
               /\ messages = procs[p].before.messages
               /\ statusEvents = procs[p].before.statusEvents

\* the second of two equal sync runs saw records, one of them with media, and skipped them
C2_Witness ==
    \E p \in Returned({"sync"}) :
        /\ procs[p].repeat /\ procs[p].acc.threw = ""
        /\ Len(procs[p].msgs) >= 2
        /\ procs[p].args.includeMedia
        /\ \E i \in 1..Len(messages) : messages[i].mediaUrls # <<>>

\* C3: a bulkSync run that repeats the run before it creates no Contact, Channel,
\* Conversation, Message or StatusEvent and reports four zero counts.
C3_SecondBulkCreatesNothing ==
    \A p \in Returned({"bulk"}) :
        (procs[p].repeat /\ procs[p].acc.threw = "")
            => /\ procs[p].acc.contactsCreated = 0
               /\ procs[p].acc.conversationsCreated = 0
               /\ procs[p].acc.messagesInserted = 0
               /\ procs[p].acc.messagesUpdated = 0
               /\ contacts = procs[p].before.contacts
               /\ channels = procs[p].before.channels
               /\ Len(conversations) = Len(procs[p].before.conversations)
               /\ messages = procs[p].before.messages
               /\ statusEvents = procs[p].before.statusEvents

\* the second of two equal bulk runs fetched records of two counterparties
C3_Witness ==
    \E p \in Returned({"bulk"}) :
        /\ procs[p].repeat /\ procs[p].acc.threw = ""
        /\ procs[p].acc.totalFetched >= 2
        /\ Len(contacts) >= 2
        /\ Len(messages) >= 2

\* C4: once a Message is DELIVERED, no run of either entry point sets it to SENT.
C4_DeliveredNeverBackToSent ==
    \A p \in Runs :
        \A i \in 1..Len(procs[p].before.messages) :
            procs[p].before.messages[i].status = "DELIVERED" => messages[i].status # "SENT"

\* C5: no step of a run of either entry point changes a sentAt, deliveredAt or
\* readAt that is already set.
C5_TimestampsOnlyFilledIn ==
    [][RunStep
          => \A i \in 1..Len(messages) :
                /\ messages[i].sentAt # NoDate => messages'[i].sentAt = messages[i].sentAt
                /\ messages[i].deliveredAt # NoDate => messages'[i].deliveredAt = messages[i].deliveredAt
                /\ messages[i].readAt # NoDate => messages'[i].readAt = messages[i].readAt]_vars

\* the StatusEvents appended for message i since the table was before
AppendedFor(i, before, after) ==
    {k \in (Len(before) + 1)..Len(after) : after[k].messageId = i}

\* C6: a run appends a StatusEvent for an existing message only when the mapped
\* remote status differs from the stored one, then exactly one; a new message
\* gets exactly one; and a run that repeats the run before it appends none.
C6_StatusEventMinimality ==
    [][\A p \in 1..Len(procs) :
          RunStepOf(p)
             => /\ Len(statusEvents') >= Len(statusEvents)
                /\ SubSeq(statusEvents', 1, Len(statusEvents)) = statusEvents
                /\ \A i \in 1..Len(messages') :
                      LET added == AppendedFor(i, statusEvents, statusEvents')
                      IN  IF i > Len(messages)
                          THEN /\ Cardinality(added) = 1
                               /\ \A k \in added : statusEvents'[k].status = messages'[i].status
                          ELSE /\ Cardinality(added) <= 1
                               /\ \A k \in added : /\ statusEvents'[k].status # messages[i].status
                                                   /\ statusEvents'[k].status = messages'[i].status
                               /\ messages'[i].status # messages[i].status => added # {}
                /\ procs[p].repeat => statusEvents' = statusEvents]_vars

\* SpecLists: the distinct SIDs of the two answers
MergedSids == {(lists.outbound \o lists.inbound)[i].sid : i \in 1..Len(lists.outbound \o lists.inbound)}

\* the SIDs of the sequence run p processed
ProcessedSids(p) == {procs[p].msgs[i].sid : i \in 1..Len(procs[p].msgs)}

\* C7: whatever the order of the two result lists, the sequence the run
\* processes is in ascending order of creation time and made of their records.
C7_ProcessedInCreationOrder ==
    \A p \in Returned({"sync"}) :
        procs[p].acc.threw = ""
            => /\ \A i, j \in 1..Len(procs[p].msgs) :
                     i < j => procs[p].msgs[i].dateCreated <= procs[p].msgs[j].dateCreated
               /\ ProcessedSids(p) \subseteq MergedSids
               /\ \A i \in 1..Len(procs[p].msgs) : procs[p].msgs[i] = Pool[procs[p].msgs[i].sid]

\* inbound [T3, T1] and outbound [T2] were processed as [T1, T2, T3]
C7_Witness ==
    \E p \in Returned({"sync"}) :
        /\ [i \in 1..Len(lists.inbound) |-> lists.inbound[i].dateCreated] = <<3, 1>>
        /\ [i \in 1..Len(lists.outbound) |-> lists.outbound[i].dateCreated] = <<2>>
        /\ [i \in 1..Len(procs[p].msgs) |-> procs[p].msgs[i].dateCreated] = <<1, 2, 3>>
        /\ Len(messages) = 3

\* the conversation summary a record stands for
SummaryOf(sid) ==
    IF Pool[sid].body # "" THEN Pool[sid].body
    ELSE IF Pool[sid].numMedia # "0" THEN "[Media]" ELSE NoVal

Min(a, b) == IF a < b THEN a ELSE b

\* C8: the run keeps min(limit, n) of the n distinct records, none of them older
\* than a dropped one, upserts exactly the kept ones, and the conversation
\* summary is that of a newest kept record.
C8_LimitKeepsMostRecent ==
    \A p \in Returned({"sync"}) :
        procs[p].acc.threw = ""
            => /\ Len(procs[p].msgs) = Min(procs[p].args.limit, Cardinality(MergedSids))
               /\ Cardinality(ProcessedSids(p)) = Len(procs[p].msgs)
               /\ ProcessedSids(p) \subseteq MergedSids
               /\ \A d \in MergedSids \ ProcessedSids(p), k \in ProcessedSids(p) :
                     Pool[d].dateCreated <= Pool[k].dateCreated
               /\ {messages[i].twilioSid : i \in 1..Len(messages)} = ProcessedSids(p)
               /\ Len(messages) = Len(procs[p].msgs)
               /\ procs[p].acc.messagesInserted = Len(procs[p].msgs)
               /\ ProcessedSids(p) # {} =>
                     \E k \in ProcessedSids(p) :
                        /\ \A o \in ProcessedSids(p) : Pool[o].dateCreated <= Pool[k].dateCreated
                        /\ conversations[1].lastMessageAt = Pool[k].dateCreated
                        /\ conversations[1].lastMessage = SummaryOf(k)

\* more distinct records than the limit: the oldest were dropped and never stored
C8_Witness ==
    \E p \in Returned({"sync"}) :
        /\ procs[p].acc.threw = ""
        /\ Cardinality(MergedSids) = 4
        /\ procs[p].args.limit = 2
        /\ Len(messages) = 2
        /\ conversations[1].lastMessage = "[Media]"

\* C9: a counterparty whose processing throws costs bulkSync one entry in errors
\* and nothing else: the run returns, every record of every other counterparty
\* is stored with its mapped status, and the counts are the rows written.
C9_BulkFailureIsolation ==
    \A p \in Returned({"bulk"}) :
        procs[p].fetchOk
            => LET fetched == procs[p].msgs
                   keyOf(i) == ContactNumberOf(fetched[i], ourNumbers)
                   failed == FailedContacts(procs[p])
                   was == procs[p].before
               IN  /\ procs[p].acc.threw = ""
                   /\ failed \subseteq {keyOf(i) : i \in 1..Len(fetched)}
                   /\ Len(procs[p].acc.errors) = Cardinality(failed)
                   /\ \A i \in 1..Len(fetched) :
                         keyOf(i) \notin failed =>
                            \E m \in 1..Len(messages) :
                               /\ messages[m].twilioSid = fetched[i].sid
                               /\ messages[m].status = mapTwilioStatus(fetched[i].status)
                   /\ procs[p].acc.totalFetched = Len(fetched)
                   /\ procs[p].acc.contactsCreated = Len(contacts) - Len(was.contacts)
                   /\ procs[p].acc.conversationsCreated = Len(conversations) - Len(was.conversations)
                   /\ procs[p].acc.messagesInserted = Len(messages) - Len(was.messages)
                   /\ procs[p].acc.messagesUpdated =
                         Cardinality({m \in 1..Len(was.messages) : messages[m] # was.messages[m]})

\* counterparty AddrA failed after one insert; AddrB, processed after it, got its
\* contact, conversation and message
C9_Witness ==
    \E p \in Returned({"bulk"}) :
        /\ procs[p].acc.threw = ""
        /\ FailedContacts(procs[p]) = {AddrA}
        /\ Len(procs[p].acc.errors) = 1
        /\ procs[p].acc.contactsCreated = 2
        /\ procs[p].acc.messagesInserted = 2
        /\ \E m \in 1..Len(messages) : messages[m].twilioSid = "SM1"

\* C10: a run whose list-messages call fails throws and has written nothing;
\* bulkSync throws in that case and in no other.
C10_FetchFailureAborts ==
    \A p \in Runs :
        /\ ~procs[p].fetchOk => (procs[p].acc.threw # "" /\ CurrentDb = procs[p].before)
        /\ procs[p].acc.threw = "RemoteUnavailable"
              => (~procs[p].fetchOk /\ CurrentDb = procs[p].before)
        /\ procs[p].kind = "bulk" => (procs[p].acc.threw # "" <=> ~procs[p].fetchOk)

\* a run was aborted by the failed fetch although the provider had a message to store
C10_Witness ==
    \E p \in Runs :
        /\ procs[p].acc.threw = "RemoteUnavailable"
        /\ Len(conversations) >= 1
        /\ \E sid \in SIDs : remote[sid] # Absent /\ RowsWithSid(messages, sid) = {}

NotFound == {"Conversation not found", "No matching contact channel found"}

\* the channels of the conversation's contact that have the conversation's type
MatchingChannels(db, cid) ==
    {i \in 1..Len(db.channels) : /\ db.channels[i].contactId = db.conversations[cid].contactId
                                 /\ db.channels[i].type = db.conversations[cid].channelType}

\* the primary one if there is one, otherwise the first
PreferredChannel(db, cid) ==
    LET prim == {i \in MatchingChannels(db, cid) : db.channels[i].isPrimary}
        S == IF prim # {} THEN prim ELSE MatchingChannels(db, cid)
    IN  CHOOSE i \in S : \A j \in S : i <= j

\* C11: syncConversation throws a not-found error, without a list call and
\* without a write, exactly when the conversation does not exist or its contact
\* has no channel of its type; otherwise it lists for the primary matching
\* channel, or the first matching one when none is primary.
C11_NotFoundBeforeAnyCall ==
    \A p \in Returned({"sync"}) :
        LET cid == procs[p].args.conversationId
            was == procs[p].before
        IN  IF cid \notin 1..Len(was.conversations) \/ MatchingChannels(was, cid) = {}
            THEN /\ procs[p].acc.threw \in NotFound
                 /\ procs[p].queried = <<>>
                 /\ procs[p].msgs = <<>>
                 /\ CurrentDb = was
            ELSE /\ procs[p].acc.threw \notin NotFound
                 /\ procs[p].queried =
                       toTwilioAddress(was.conversations[cid].channelType,
                                       was.channels[PreferredChannel(was, cid)].identifier)

\* the contact has two channels, none of the conversation's type: the run threw
C11_Witness ==
    \E p \in Returned({"sync"}) :
        /\ procs[p].acc.threw = "No matching contact channel found"
        /\ Len(channels) = 2
        /\ procs[p].queried = <<>>
        /\ messages = <<>>

\* the record run p is about to write
RecordAt(p) ==
    IF procs[p].kind = "bulk" THEN BulkRecords(procs[p])[procs[p].i] ELSE procs[p].msgs[procs[p].i]

\* the SID run p is about to write was not in its snapshot and is stored by now
RacedSid(p) ==
    /\ RecordAt(p).sid \notin {e.twilioSid : e \in procs[p].existing}
    /\ RowsWithSid(messages, RecordAt(p).sid) # {}

\* C12: when a row with a fetched SID was inserted after the run's existence
\* check, the write of the run does not fail: the run does not throw, no error
\* is recorded for the counterparty, and it goes on.
C12_SidRaceIsNotAFailure ==
    [][\A p \in 1..Len(procs) :
          (/\ RunStepOf(p)
           /\ procs[p].pc = "write"
           /\ RacedSid(p))
             => /\ procs'[p].acc.threw = ""
                /\ procs'[p].acc.errors = procs[p].acc.errors]_vars

\* C13: no two Conversations have the same contactId and channelType.
C13_OneConversationPerContactAndChannel ==
    \A i, j \in 1..Len(conversations) :
        (i # j /\ ConversationLive(CurrentDb, i))
            => <<conversations[i].contactId, conversations[i].channelType>>
                    # <<conversations[j].contactId, conversations[j].channelType>>

\* C14: a bulk run that finds no channel for an address and then loses the
\* race for creating it records no error: it goes on with the contact that
\* owns the channel.
C14_LostContactRaceIsNotAnError ==
    [][\A p \in 1..Len(procs) :
          (/\ RunStepOf(p)
           /\ procs[p].kind = "bulk"
           /\ procs[p].pc = "createContact"
           /\ ChannelTaken(CurrentDb, procs[p].channelType, procs[p].contactNumber))
             => /\ procs'[p].acc.errors = procs[p].acc.errors
                /\ procs'[p].pc = "conversation"
                /\ procs'[p].contactId =
                      channels[ChannelFindUnique(CurrentDb, procs[p].channelType,
                                                 procs[p].contactNumber)].contactId]_vars

\* C15: the message sendMessage stored without SID is the only row for the
\* provider's message, and once the provider has taken the message and
\* sendMessage has ended it carries the SID.
C15_OneRowForTheSentMessage ==
    \A p \in 1..Len(procs) :
        (procs[p].kind = "send" /\ MessageLive(CurrentDb, procs[p].messageId))
            => /\ RowsWithSid(messages, SentSid(procs[p])) \subseteq {procs[p].messageId}
               /\ (procs[p].pc = "done" /\ remote[SentSid(procs[p])] # Absent)
                     => messages[procs[p].messageId].twilioSid = SentSid(procs[p])

\* the eight values of the MessageStatus enum
LocalStatuses == {statusMap[k] : k \in DOMAIN statusMap}

\* C16: mapTwilioStatus is total: for every input string the result is one of
\* the eight local status values; an input that matches a key of the table,
\* whatever its case, gives that key's value, and every other input gives QUEUED.
C16_MapTwilioStatusTotal ==
    last.op = "mapTwilioStatus" =>
        /\ last.result \in LocalStatuses
        /\ \A k \in DOMAIN statusMap : ToLowerCase(last.args) = k => last.result = statusMap[k]
        /\ ToLowerCase(last.args) \notin DOMAIN statusMap => last.result = "QUEUED"

\* C17: every Message row that syncConversation or bulkSync created has the
\* channelType inferred from its own record: WHATSAPP if either address carries
\* the 'whatsapp:' marker, otherwise MMS if the declared media count is > 0,
\* otherwise SMS.
C17_ChannelTypeOfOwnRecord ==
    \A i \in 1..Len(messages) :
        messages[i].twilioSid \in SIDs =>
            messages[i].channelType =
                inferChannelTypeFromTwilioMessage(TwilioRecord(messages[i].twilioSid, "queued"))

\* C18: in both entry points a record is OUTBOUND exactly when its from-address
\* without the transport prefix is one of the account's own addresses, and
\* INBOUND otherwise, so both give the same raw record the same direction.
C18_DirectionConsistent ==
    last.op = "inferDirection" =>
        LET own == stripTransportPrefix(last.args.from) \in ourNumbers
        IN  /\ last.result.history = (IF own THEN "OUTBOUND" ELSE "INBOUND")
            /\ last.result.bulk = (IF own THEN "OUTBOUND" ELSE "INBOUND")
            /\ last.result.history = last.result.bulk

\* C19: maybeFetchMediaUrls issues no remote call and returns the empty list
\* whenever the declared media count is <= 0, and returns the empty list
\* without throwing when the list-media call fails.
C19_MediaIsBestEffort ==
    last.op = "maybeFetchMediaUrls" =>
        /\ parseInt(OrElseStr(last.args, "0")) <= 0 =>
                last.result.calls = 0 /\ last.result.urls = <<>>
        /\ mediaDown => last.threw = "" /\ last.result.urls = <<>>

\* the conversations run p upserted a record into
TouchedConversations(p) ==
    {messages[i].conversationId :
        i \in {j \in 1..Len(messages) : /\ messages[j].twilioSid # NoVal
                                        /\ messages[j].twilioSid \in UpsertedSids(procs[p])}}

\* the stored messages of a conversation with the greatest createdAt
LatestMessages(c) ==
    {i \in 1..Len(messages) :
        /\ messages[i].conversationId = c
        /\ \A j \in 1..Len(messages) :
              messages[j].conversationId = c => messages[j].createdAt <= messages[i].createdAt}

\* the summary text of a body: the body itself, or null / the media placeholder for an empty one
SummaryTexts(body) == IF body = "" THEN {NoVal, "[Media]"} ELSE {body}

\* C20: after every completed syncConversation or bulkSync run, the lastMessageAt
\* of each conversation the run touched equals the greatest createdAt among the
\* messages stored for it, and lastMessage is the body of that message.
C20_SummaryIsLatestMessage ==
    \A p \in Runs :
        procs[p].acc.threw = "" =>
            \A c \in TouchedConversations(p) :
                \E i \in LatestMessages(c) :
                    /\ conversations[c].lastMessageAt = messages[i].createdAt
                    /\ conversations[c].lastMessage \in SummaryTexts(messages[i].body)

\* C21: no step of syncConversation or bulkSync deletes a Contact, Channel,
\* Conversation, Message or StatusEvent, and no stored StatusEvent is changed:
\* the StatusEvents only grow by appending.
C21_AppendOnly ==
    [][RunStep
          => /\ Len(contacts') >= Len(contacts)
             /\ Len(channels') >= Len(channels)
             /\ Len(conversations') >= Len(conversations)
             /\ Len(messages') >= Len(messages)
             /\ Len(statusEvents') >= Len(statusEvents)
             /\ \A i \in 1..Len(contacts) : contacts[i] # DeletedContact => contacts'[i] # DeletedContact
             /\ \A i \in 1..Len(channels) : channels'[i] = channels[i]
             /\ \A i \in 1..Len(conversations) :
                   conversations[i].contactId # 0 => conversations'[i].contactId # 0
             /\ \A i \in 1..Len(messages) :
                   messages[i].conversationId # 0 => messages'[i].conversationId # 0
             /\ \A i \in 1..Len(statusEvents) : statusEvents'[i] = statusEvents[i]]_vars

\* a run has appended a status event to a message that already had one
C21_Witness ==
    \E p \in Runs :
        /\ procs[p].acc.messagesUpdated >= 1
        /\ \E i, j \in 1..Len(statusEvents) :
              /\ i <= Len(procs[p].before.statusEvents)
              /\ j > Len(procs[p].before.statusEvents)
              /\ statusEvents[i].messageId = statusEvents[j].messageId

\* C22: when a run with media resolution upserts a record whose stored Message
\* has an empty media list and the same status as the record, and resolution
\* gives a non-empty list, the Message gets that list, keeps its status and
\* no StatusEvent is appended for it.
C22_MediaPatchedWithoutEvent ==
    \A p \in Runs :
        (procs[p].acc.threw = "" /\ procs[p].args.includeMedia)
            => \A i \in 1..Len(procs[p].before.messages) :
                  LET was == procs[p].before.messages[i]
                  IN  (/\ was.twilioSid \in SIDs
                       /\ was.twilioSid \in UpsertedSids(procs[p])
                       /\ was.mediaUrls = <<>>
                       /\ mapTwilioStatus(remote[was.twilioSid]) = was.status
                       /\ maybeFetchMediaUrls(was.twilioSid, Catalogue[was.twilioSid].numMedia,
                                              mediaDown) # <<>>)
                          => /\ messages[i].mediaUrls =
                                    maybeFetchMediaUrls(was.twilioSid,
                                                        Catalogue[was.twilioSid].numMedia, mediaDown)
                             /\ messages[i].status = was.status
                             /\ AppendedFor(i, procs[p].before.statusEvents, statusEvents) = {}

\* the position of a SID of the pool in the lexicographic order of the SIDs
SidRank(sid) ==
    CASE sid = "SMa" -> 1
      [] sid = "SMb" -> 2
      [] sid = "SMc" -> 3
      [] sid = "SMd" -> 4

\* C23: records with equal creation timestamps are processed in the order of
\* their SIDs, so the merged sequence (which records survive the limit, which
\* record becomes the summary) does not depend on the order within the lists.
C23_TiesOrderedBySid ==
    \A p \in Returned({"sync"}) :
        procs[p].acc.threw = ""
            => \A i, j \in 1..Len(procs[p].msgs) :
                  (i < j /\ procs[p].msgs[i].dateCreated = procs[p].msgs[j].dateCreated)
                      => SidRank(procs[p].msgs[i].sid) < SidRank(procs[p].msgs[j].sid)

\* the two answers of the provider, one after the other
MergedLists == lists.outbound \o lists.inbound

\* C24: every record without a SID is an entry of its own of the merged
\* sequence: before the limit cuts, the sequence has as many entries as there
\* are distinct SIDs plus SID-less records.
C24_SidlessRecordsKept ==
    \A p \in Returned({"sync"}) :
        (procs[p].acc.threw = "" /\ procs[p].args.limit = DefaultLimit)
            => Len(procs[p].msgs) =
                  Cardinality({MergedLists[i].sid : i \in {j \in 1..Len(MergedLists) : Truthy(MergedLists[j].sid)}})
                  + Cardinality({i \in 1..Len(MergedLists) : ~Truthy(MergedLists[i].sid)})

\* what maybeFetchMediaUrls gives a run for the stored message with the SID
MediaFor(sid, includeMedia) ==
    IF includeMedia THEN maybeFetchMediaUrls(sid, Catalogue[sid].numMedia, mediaDown) ELSE <<>>

\* the store syncConversation's iteration would leave of the store db for the
\* record the provider lists for the stored message i
SyncWouldLeave(db, i, includeMedia) ==
    LET sid == db.messages[i].twilioSid
        rec == TwilioRecord(sid, remote[sid])
        existing == FindExistingBySids(db, {sid})
    IN  IF HistoryWrites(rec, includeMedia, existing, MediaFor(sid, includeMedia))
        THEN HistoryUpsert(db, rec, db.messages[i].conversationId, includeMedia, existing,
                           rec.dateCreated, MediaFor(sid, includeMedia)).db
        ELSE db

\* message i has the same status, timestamps and media in both stores, and
\* the same StatusEvents were appended for it
SameUpsert(i, before, msgsA, eventsA, msgsB, eventsB) ==
    /\ msgsA[i].status = msgsB[i].status
    /\ msgsA[i].sentAt = msgsB[i].sentAt
    /\ msgsA[i].deliveredAt = msgsB[i].deliveredAt
    /\ msgsA[i].readAt = msgsB[i].readAt
    /\ msgsA[i].mediaUrls = msgsB[i].mediaUrls
    /\ {eventsA[k] : k \in AppendedFor(i, before, eventsA)}
          = {eventsB[k] : k \in AppendedFor(i, before, eventsB)}

\* C25: for a record whose Message row exists, bulkSync leaves the row as
\* syncConversation's upsert of the same record would: same status, same
\* sentAt / deliveredAt / readAt, same mediaUrls, same appended StatusEvents.
C25_BulkUpsertsLikeSync ==
    \A p \in Returned({"bulk"}) :
        procs[p].acc.threw = ""
            => \A i \in 1..Len(procs[p].before.messages) :
                  (/\ procs[p].before.messages[i].twilioSid \in SIDs
                   /\ procs[p].before.messages[i].twilioSid \in UpsertedSids(procs[p]))
                      => SameUpsert(i, procs[p].before.statusEvents, messages, statusEvents,
                                    SyncWouldLeave(procs[p].before, i, procs[p].args.includeMedia).messages,
                                    SyncWouldLeave(procs[p].before, i, procs[p].args.includeMedia).statusEvents)

\* C26: within one run the records of a conversation are upserted one after
\* the other in ascending order of creation time: of two rows the run created
\* for the same conversation, the one created first is the earlier record.
C26_UpsertsInCreationOrder ==
    \A p \in Runs :
        \A i, j \in (Len(procs[p].before.messages) + 1)..Len(messages) :
            (i < j /\ messages[i].conversationId = messages[j].conversationId)
                => messages[i].createdAt <= messages[j].createdAt

\* both handlers were syncConversation runs of the same conversation and returned
TwoSyncsDone ==
    /\ Len(procs) = 2
    /\ \A p \in 1..2 : procs[p].kind = "sync" /\ procs[p].pc = "done" /\ procs[p].acc.threw = ""
    /\ procs[1].conversationId = procs[2].conversationId

\* C27: when two concurrent syncConversation runs of one conversation saw the
\* same status change of a stored message, the store holds one StatusEvent for
\* the change, as after a single run: no StatusEvent is stored twice.
C27_ConcurrentSyncsAppendOnce ==
    TwoSyncsDone
        => \A i, j \in 1..Len(statusEvents) : i # j => statusEvents[i] # statusEvents[j]

\* C28: the counts a syncConversation run returns are exact: inserted is the
\* number of Message rows it created, updated the number of existing rows it
\* wrote, the fetched count (twilioFetched: sliced.length) the number of records
\* fetched from the provider, and inserted + updated <= fetched.
C28_SyncCountsExact ==
    \A p \in Returned({"sync"}) :
        procs[p].acc.threw = ""
            => /\ procs[p].acc.messagesInserted = Len(messages) - Len(procs[p].before.messages)
               /\ procs[p].acc.messagesUpdated =
                      Cardinality({i \in 1..Len(procs[p].before.messages) :
                                      messages[i] # procs[p].before.messages[i]})
               /\ Len(procs[p].msgs) = procs[p].listed
               /\ procs[p].acc.messagesInserted + procs[p].acc.messagesUpdated <= Len(procs[p].msgs)

\* the StatusEvents of message i, by position in the table
EventsOf(i) == {k \in 1..Len(statusEvents) : statusEvents[k].messageId = i}

\* C29: after any sequence of sendMessage, syncConversation and bulkSync calls
\* every Message has at least one StatusEvent and its status is the status of
\* the StatusEvent appended last for it.
C29_StatusMatchesLastEvent ==
    Quiescent
        => \A i \in 1..Len(messages) :
              /\ EventsOf(i) # {}
              /\ \E k \in EventsOf(i) :
                    /\ \A j \in EventsOf(i) : j <= k
                    /\ messages[i].status = statusEvents[k].status

\* the counterparties of the records run p fetched whose SID was stored, in the
\* conversation the syncConversation run just before it synced, when p was called
KnownCounterparties(p) ==
    {ContactNumberOf(procs[p].msgs[i], ourNumbers) :
        i \in {j \in 1..Len(procs[p].msgs) :
                  /\ last.op = "sync" /\ last.threw = ""
                  /\ \E m \in RowsWithSid(procs[p].before.messages, procs[p].msgs[j].sid) :
                        procs[p].before.messages[m].conversationId = last.args.conversationId}}

\* C30: a bulkSync run that fetches a record whose SID syncConversation has
\* stored before recognises the Message as existing: it records no error for
\* the counterparty and creates no second Contact for the address.
C30_BulkRecognisesStoredSids ==
    \A p \in Returned({"bulk"}) :
        procs[p].acc.threw = ""
            => \A cn \in KnownCounterparties(p) :
                  /\ cn \notin FailedContacts(procs[p])
                  /\ \A k \in (Len(procs[p].before.channels) + 1)..Len(channels) :
                        channels[k].identifier # cn
====
